---------------------------- MODULE Spec2Model ----------------------------
(***************************************************************************)
(* A model of src/simplifier.cpp: the edge-collapse simplifier             *)
(* (meshopt_simplify) and the grid-clustering simplifier                   *)
(* (meshopt_simplifySloppy).                                               *)
(*                                                                         *)
(* Conventions.                                                            *)
(*  - A C array of n elements is a function on 0..n-1; the index buffers   *)
(*    are such functions too (indices[0], indices[1], ...).                *)
(*  - unsigned int values that take part in 32-bit hashing are pairs       *)
(*    <<high 16 bits, low 16 bits>>, multiplied and xor-ed modulo 2^32.    *)
(*  - ~0u, the all-ones sentinel, is NoVertex.                             *)
(*  - Vertex positions are points of the integer lattice, and every        *)
(*    triangle of an input mesh lies in an axis-aligned plane (or is       *)
(*    degenerate).  On these inputs the value of every quadric             *)
(*    coefficient and of every error is, in exact arithmetic, a rational   *)
(*    number: rescalePositions yields q/extent with q an integer vector,   *)
(*    and a quadric's coefficients are integers over a power of extent.    *)
(*    The model computes these numerators; the rounding of the float       *)
(*    operations is not modelled.  An error e stands for the float         *)
(*    e / (2 * ErrDen(extent)).                                            *)
(***************************************************************************)
EXTENDS Integers, Sequences, FiniteSets, TLC

\* ~0u (the model's integers end at 2^31 - 1)
NoVertex == 2147483647

Range0(n) == 0 .. (n - 1)

Abs(x) == IF x < 0 THEN -x ELSE x

Max(S) == CHOOSE x \in S : \A y \in S : y <= x

Min(S) == CHOOSE x \in S : \A y \in S : x <= y

\* The element of a set of one element.  Only({e : x \in {v}}) is e with x bound to
\* v: it names a value that is computed once and used several times.
Only(S) == CHOOSE x \in S : TRUE

RECURSIVE Pow2(_)
Pow2(n) == IF n = 0 THEN 1 ELSE 2 * Pow2(n - 1)

-----------------------------------------------------------------------------
(* 32-bit unsigned arithmetic on pairs <<hi16, lo16>>.                     *)

RECURSIVE BitXor(_, _, _)
BitXor(a, b, n) ==
    IF n = 0 THEN 0
    ELSE (((a % 2) + (b % 2)) % 2) + 2 * BitXor(a \div 2, b \div 2, n - 1)

RECURSIVE BitAnd(_, _, _)
BitAnd(a, b, n) ==
    IF n = 0 THEN 0
    ELSE ((a % 2) * (b % 2)) + 2 * BitAnd(a \div 2, b \div 2, n - 1)

RECURSIVE BitOr(_, _, _)
BitOr(a, b, n) ==
    IF n = 0 THEN 0
    ELSE (IF (a % 2) + (b % 2) > 0 THEN 1 ELSE 0) + 2 * BitOr(a \div 2, b \div 2, n - 1)

U32(x) == <<x \div 65536, x % 65536>>

\* (x * y) % 2^16 for x, y < 2^16, by 8-bit limbs of y
MulMod16(x, y) == ((x * (y % 256)) + (((x * (y \div 256)) % 256) * 256)) % 65536

\* a * b modulo 2^32
Mul32(a, b) ==
    LET al == a[2]
        bl == b[2]
        t0 == al * (bl % 256)
        t1 == al * (bl \div 256)
        s  == t0 + ((t1 % 256) * 256)
        plo == s % 65536
        phi == (s \div 65536) + (t1 \div 256)
    IN  <<(phi + MulMod16(a[1], bl) + MulMod16(al, b[1])) % 65536, plo>>

Xor32(a, b) == <<BitXor(a[1], b[1], 16), BitXor(a[2], b[2], 16)>>

\* a >> r, 0 < r < 32
Shr32(a, r) ==
    IF r >= 16 THEN <<0, a[1] \div Pow2(r - 16)>>
    ELSE <<a[1] \div Pow2(r), ((a[1] % Pow2(r)) * Pow2(16 - r)) + (a[2] \div Pow2(r))>>

\* const unsigned int m = 0x5bd1e995
MurmurM == <<23505, 59797>>

RECURSIVE Log2Floor(_)
Log2Floor(n) == IF n <= 1 THEN 0 ELSE 1 + Log2Floor(n \div 2)

\* the IEEE-754 single precision bit pattern of the non-negative integer n < 2^24
FloatBits(n) ==
    IF n = 0 THEN <<0, 0>>
    ELSE LET e == Log2Floor(n)
         IN  U32(((127 + e) * 8388608) + ((n - Pow2(e)) * Pow2(23 - e)))

-----------------------------------------------------------------------------
(* Edge adjacency.                                                         *)

RECURSIVE SumCounts(_, _)
SumCounts(counts, v) == IF v = 0 THEN 0 ELSE counts[v - 1] + SumCounts(counts, v - 1)

RECURSIVE FillEdgeData(_, _, _, _, _)
FillEdgeData(data, offsets, indices, i, face_count) ==
    IF i >= face_count THEN [data |-> data, offsets |-> offsets]
    ELSE LET a  == indices[(i * 3) + 0]
             b  == indices[(i * 3) + 1]
             c  == indices[(i * 3) + 2]
             d1 == [data EXCEPT ![offsets[a]] = b]
             o1 == [offsets EXCEPT ![a] = @ + 1]
             d2 == [d1 EXCEPT ![o1[b]] = c]
             o2 == [o1 EXCEPT ![b] = @ + 1]
             d3 == [d2 EXCEPT ![o2[c]] = a]
             o3 == [o2 EXCEPT ![c] = @ + 1]
         IN  FillEdgeData(d3, o3, indices, i + 1, face_count)

buildEdgeAdjacency(indices, index_count, vertex_count) ==
    LET face_count == index_count \div 3
        counts  == [v \in Range0(vertex_count) |->
                       Cardinality({i \in Range0(index_count) : indices[i] = v})]
        offsets == [v \in Range0(vertex_count) |-> SumCounts(counts, v)]
        filled  == FillEdgeData([k \in Range0(index_count) |-> 0], offsets, indices,
                                0, face_count)
    IN  [counts  |-> counts,
         offsets |-> [v \in Range0(vertex_count) |-> filled.offsets[v] - counts[v]],
         data    |-> filled.data]

-----------------------------------------------------------------------------
(* Position hashing, position remap and wedge ring.                        *)

\* one round of PositionHasher::hash for the key word k
MurmurRound(h, k) ==
    LET k1 == Mul32(k, MurmurM)
        k2 == Xor32(k1, Shr32(k1, 24))
        k3 == Mul32(k2, MurmurM)
    IN  Xor32(Mul32(h, MurmurM), k3)

PositionHasher_hash(p) ==
    MurmurRound(MurmurRound(MurmurRound(<<0, 0>>, FloatBits(p[1])),
                            FloatBits(p[2])), FloatBits(p[3]))

RECURSIVE hashBuckets2From(_, _)
hashBuckets2From(buckets, count) ==
    IF buckets < count THEN hashBuckets2From(buckets * 2, count) ELSE buckets

hashBuckets2(count) == hashBuckets2From(1, count)

\* the value of the assertion "Hash table is full"
HashFull == -1


\* hashProbe that steps two buckets at every collision
RECURSIVE hashProbe_stride(_, _, _, _, _, _)
hashProbe_stride(keys, hashmod, bucket, probe, matches, empty) ==
    IF probe > hashmod THEN HashFull
    ELSE IF keys[bucket] = empty THEN bucket
    ELSE IF keys[bucket] \in matches THEN bucket
    ELSE hashProbe_stride(keys, hashmod, (bucket + 2) % (hashmod + 1), probe + 1,
                          matches, empty)

\* keys[b] is the key stored in bucket b; matches is the set of stored keys equal
\* to the key looked up.  The result is the bucket of the entry returned.
RECURSIVE hashProbe(_, _, _, _, _, _)
hashProbe(keys, hashmod, bucket, probe, matches, empty) ==
    IF probe > hashmod THEN HashFull
    ELSE IF keys[bucket] = empty THEN bucket
    ELSE IF keys[bucket] \in matches THEN bucket
    ELSE hashProbe(keys, hashmod, (bucket + probe + 1) % (hashmod + 1), probe + 1,
                   matches, empty)

hashLookup2(keys, buckets, hash, matches, empty) ==
    hashProbe(keys, buckets - 1, hash[2] % buckets, 0, matches, empty)

RECURSIVE buildRemapFrom(_, _, _, _, _, _)
buildRemapFrom(remap, table, table_size, positions, i, vertex_count) ==
    IF i >= vertex_count THEN remap
    ELSE LET equal == {j \in Range0(vertex_count) : positions[j] = positions[i]}
         IN  Only({buildRemapFrom(
                       [remap EXCEPT ![i] = IF table[entry] = NoVertex THEN i
                                            ELSE table[entry]],
                       IF table[entry] = NoVertex THEN [table EXCEPT ![entry] = i]
                       ELSE table,
                       table_size, positions, i + 1, vertex_count)
                   : entry \in {hashLookup2(table, table_size,
                                            PositionHasher_hash(positions[i]), equal,
                                            NoVertex)}})


\* buildWedgeFrom that links a vertex back to its canonical vertex, not to the
\* vertex that followed the canonical vertex
RECURSIVE buildWedgeFrom_back(_, _, _, _)
buildWedgeFrom_back(wedge, remap, i, vertex_count) ==
    IF i >= vertex_count THEN wedge
    ELSE IF remap[i] # i
         THEN LET r == remap[i]
                  w1 == [wedge EXCEPT ![i] = r]
              IN  buildWedgeFrom_back([w1 EXCEPT ![r] = i], remap, i + 1, vertex_count)
         ELSE buildWedgeFrom_back(wedge, remap, i + 1, vertex_count)

RECURSIVE buildWedgeFrom(_, _, _, _)
buildWedgeFrom(wedge, remap, i, vertex_count) ==
    IF i >= vertex_count THEN wedge
    ELSE IF remap[i] # i
         THEN LET r == remap[i]
                  w1 == [wedge EXCEPT ![i] = wedge[r]]
              IN  buildWedgeFrom([w1 EXCEPT ![r] = i], remap, i + 1, vertex_count)
         ELSE buildWedgeFrom(wedge, remap, i + 1, vertex_count)

buildPositionRemap(positions, vertex_count) ==
    LET table_size == hashBuckets2(vertex_count)
    IN  Only({[remap |-> remap,
               wedge |-> buildWedgeFrom([i \in Range0(vertex_count) |-> i], remap, 0,
                                        vertex_count)]
              : remap \in {buildRemapFrom([i \in Range0(vertex_count) |-> 0],
                                          [b \in Range0(table_size) |-> NoVertex],
                                          table_size, positions, 0, vertex_count)}})

-----------------------------------------------------------------------------
(* Vertex classification.                                                  *)

Kind_Manifold == 0
Kind_Border == 1
Kind_Seam == 2
Kind_Locked == 3

kCanCollapse ==
    <<  <<1, 1, 1, 1>>,
        <<0, 1, 0, 0>>,
        <<0, 0, 1, 0>>,
        <<0, 0, 0, 0>>  >>

kHasOpposite ==
    <<  <<1, 1, 1, 1>>,
        <<1, 0, 1, 0>>,
        <<1, 1, 1, 1>>,
        <<1, 0, 1, 0>>  >>

\* kCanCollapse[k0][k1] with the kinds counted from 0
CanCollapse(k0, k1) == kCanCollapse[k0 + 1][k1 + 1]

HasOpposite(k0, k1) == kHasOpposite[k0 + 1][k1 + 1]

hasEdge(adjacency, a, b) ==
    \E i \in Range0(adjacency.counts[a]) : adjacency.data[adjacency.offsets[a] + i] = b

RECURSIVE findWedgeEdgeFrom(_, _, _, _, _)
findWedgeEdgeFrom(adjacency, wedge, a, b, v) ==
    IF hasEdge(adjacency, v, b) THEN v
    ELSE IF wedge[v] = a THEN NoVertex
    ELSE findWedgeEdgeFrom(adjacency, wedge, a, b, wedge[v])


\* findWedgeEdge that finds an edge wherever it looks
findWedgeEdge_found(adjacency, wedge, a, b) == a

findWedgeEdge(adjacency, wedge, a, b) == findWedgeEdgeFrom(adjacency, wedge, a, b, a)

\* result: the number of open edges; last: the value left in *last (callers pass 0)
countOpenEdges(adjacency, vertex) ==
    LET open == {i \in Range0(adjacency.counts[vertex]) :
                    ~hasEdge(adjacency, adjacency.data[adjacency.offsets[vertex] + i],
                             vertex)}
    IN  [result |-> Cardinality(open),
         last   |-> IF open = {} THEN 0
                    ELSE adjacency.data[adjacency.offsets[vertex] + Max(open)]]

\* classifyCanonical that takes every vertex for the only one at its position
classifyCanonical_nowedge(i, adjacency, wedge) ==
    LET o == countOpenEdges(adjacency, i)
    IN  IF o.result = 0 THEN [kind |-> Kind_Manifold, loops |-> <<>>]
        ELSE IF o.result = 1
             THEN [kind |-> Kind_Border, loops |-> <<<<i, o.last>>>>]
             ELSE [kind |-> Kind_Locked, loops |-> <<>>]

\* the body of classifyVertices' loop for a canonical vertex i (remap[i] == i):
\* its kind, and the loop entries it writes
classifyCanonical(i, adjacency, wedge) ==
    IF wedge[i] = i
    THEN LET o == countOpenEdges(adjacency, i)
         IN  IF o.result = 0 THEN [kind |-> Kind_Manifold, loops |-> <<>>]
             ELSE IF o.result = 1
                  THEN [kind |-> Kind_Border, loops |-> <<<<i, o.last>>>>]
                  ELSE [kind |-> Kind_Locked, loops |-> <<>>]
    ELSE IF wedge[wedge[i]] = i
    THEN LET a == countOpenEdges(adjacency, i)
             b == countOpenEdges(adjacency, wedge[i])
         IN  IF a.result = 1 /\ b.result = 1
             THEN LET ao == findWedgeEdge(adjacency, wedge, a.last, wedge[i])
                      bo == findWedgeEdge(adjacency, wedge, b.last, i)
                  IN  IF ao # NoVertex /\ bo # NoVertex
                      THEN [kind  |-> Kind_Seam,
                            loops |-> <<<<i, a.last>>, <<wedge[i], b.last>>>>]
                      ELSE [kind |-> Kind_Locked, loops |-> <<>>]
             ELSE [kind |-> Kind_Locked, loops |-> <<>>]
    ELSE [kind |-> Kind_Locked, loops |-> <<>>]

RECURSIVE classifyFrom(_, _, _, _, _, _, _)
classifyFrom(result, loop, i, vertex_count, adjacency, remap, wedge) ==
    IF i >= vertex_count THEN [vertex_kind |-> result, loop |-> loop]
    ELSE IF remap[i] = i
    THEN Only({classifyFrom(
                   [result EXCEPT ![i] = c.kind],
                   [k \in DOMAIN loop |->
                       IF Len(c.loops) >= 2 /\ k = c.loops[2][1] THEN c.loops[2][2]
                       ELSE IF Len(c.loops) >= 1 /\ k = c.loops[1][1] THEN c.loops[1][2]
                       ELSE loop[k]],
                   i + 1, vertex_count, adjacency, remap, wedge)
               : c \in {classifyCanonical(i, adjacency, wedge)}})
    ELSE classifyFrom([result EXCEPT ![i] = result[remap[i]]], loop, i + 1,
                      vertex_count, adjacency, remap, wedge)

classifyVertices(vertex_count, adjacency, remap, wedge) ==
    classifyFrom([i \in Range0(vertex_count) |-> Kind_Manifold],
                 [i \in Range0(vertex_count) |-> NoVertex],
                 0, vertex_count, adjacency, remap, wedge)

-----------------------------------------------------------------------------
(* Positions and quadrics.                                                 *)
(*                                                                         *)
(* rescalePositions' result[i] is the float vector q[i] / ScaleDen, and the *)
(* model keeps q[i].  A quadric built from such vectors has a00..a22 over   *)
(* ScaleDen^2, b0..b2 over ScaleDen^3 and c over ScaleDen^4; the model      *)
(* keeps the numerators.  A float of the error domain (a quadric error,     *)
(* error_goal, error_limit, target_error) is kept in units of               *)
(* 1 / (2 * ErrDen), ErrDen = ScaleDen^4: the factor 2 makes the            *)
(* multiplication by kPassErrorBound = 1.5 exact.                           *)

\* FLT_MAX, in the units of the error domain: above every error of the model
FLT_MAX == 2000000000

VSub(p, q) == <<p[1] - q[1], p[2] - q[2], p[3] - q[3]>>

Dot(p, q) == (p[1] * q[1]) + (p[2] * q[2]) + (p[3] * q[3])

Cross(p, q) ==
    <<(p[2] * q[3]) - (p[3] * q[2]), (p[3] * q[1]) - (p[1] * q[3]),
      (p[1] * q[2]) - (p[2] * q[1])>>

rescalePositions(positions, vertex_count) ==
    LET V    == Range0(vertex_count)
        minv == [j \in 1..3 |-> IF V = {} THEN 0 ELSE Min({positions[i][j] : i \in V})]
        maxv == [j \in 1..3 |-> IF V = {} THEN 0 ELSE Max({positions[i][j] : i \in V})]
        extent == Max({0} \cup {maxv[j] - minv[j] : j \in 1..3})
    IN  [extent |-> extent,
         result |-> [i \in V |-> IF extent = 0 THEN <<0, 0, 0>>
                                 ELSE <<positions[i][1] - minv[1],
                                        positions[i][2] - minv[2],
                                        positions[i][3] - minv[3]>>]]

\* the denominator of the rescaled positions: scale = 1 / ScaleDen, or 0
ScaleDen(extent) == IF extent = 0 THEN 1 ELSE extent

ErrDen(extent) == ScaleDen(extent) * ScaleDen(extent) * ScaleDen(extent) * ScaleDen(extent)

ZeroQuadric ==
    [a00 |-> 0, a10 |-> 0, a11 |-> 0, a20 |-> 0, a21 |-> 0, a22 |-> 0,
     b0 |-> 0, b1 |-> 0, b2 |-> 0, c |-> 0]

\* normalize, for a vector with at most one component that is not 0
normalize(v) ==
    LET length == Abs(v[1]) + Abs(v[2]) + Abs(v[3])
    IN  [length |-> length,
         v |-> IF length > 0 THEN <<v[1] \div length, v[2] \div length, v[3] \div length>>
               ELSE v]

quadricAdd(Q, R) ==
    [a00 |-> Q.a00 + R.a00, a10 |-> Q.a10 + R.a10, a11 |-> Q.a11 + R.a11,
     a20 |-> Q.a20 + R.a20, a21 |-> Q.a21 + R.a21, a22 |-> Q.a22 + R.a22,
     b0 |-> Q.b0 + R.b0, b1 |-> Q.b1 + R.b1, b2 |-> Q.b2 + R.b2, c |-> Q.c + R.c]

quadricMul(Q, s) ==
    [a00 |-> Q.a00 * s, a10 |-> Q.a10 * s, a11 |-> Q.a11 * s,
     a20 |-> Q.a20 * s, a21 |-> Q.a21 * s, a22 |-> Q.a22 * s,
     b0 |-> Q.b0 * s, b1 |-> Q.b1 * s, b2 |-> Q.b2 * s, c |-> Q.c * s]

\* the error, in units of 1 / (2 * ErrDen)
quadricError(Q, v) ==
    LET rx == ((Q.b0 + (Q.a10 * v[2])) * 2) + (Q.a00 * v[1])
        ry == ((Q.b1 + (Q.a21 * v[3])) * 2) + (Q.a11 * v[2])
        rz == ((Q.b2 + (Q.a20 * v[1])) * 2) + (Q.a22 * v[3])
        r  == Q.c + (rx * v[1]) + (ry * v[2]) + (rz * v[3])
    IN  2 * Abs(r)

quadricFromPlane(a, b, c, d) ==
    [a00 |-> a * a, a10 |-> b * a, a11 |-> b * b,
     a20 |-> c * a, a21 |-> c * b, a22 |-> c * c,
     b0 |-> d * a, b1 |-> d * b, b2 |-> d * c, c |-> d * d]

quadricFromTriangle(p0, p1, p2) ==
    LET p10 == VSub(p1, p0)
        p20 == VSub(p2, p0)
        n   == normalize(Cross(p10, p20))
        normal == n.v
        area   == n.length
        distance == Dot(normal, p0)
    IN  quadricMul(quadricFromPlane(normal[1], normal[2], normal[3], -distance), area)

\* With length2 = |p10|^2, R = length2 * p20 - (p20 . p10) * p10 is length2 times the
\* code's normal before normalize(normal), so that the unit normal is R / |R| and the
\* quadric is (length2 * weight / |R|^2) times the plane quadric of (R, -R . p0).
\* In an axis-aligned plane R is a multiple k of the in-plane perpendicular of p10
\* and |R|^2 = k^2 * length2: the divisions are exact.
quadricFromTriangleEdge(p0, p1, p2, weight) ==
    LET p10 == VSub(p1, p0)
        p20 == VSub(p2, p0)
        length2 == Dot(p10, p10)
        p20p == Dot(p20, p10)
    IN  Only({
            Only({
                IF RR = 0 THEN ZeroQuadric
                ELSE quadricMul(
                         [a00 |-> (length2 * R[1] * R[1]) \div RR,
                          a10 |-> (length2 * R[2] * R[1]) \div RR,
                          a11 |-> (length2 * R[2] * R[2]) \div RR,
                          a20 |-> (length2 * R[3] * R[1]) \div RR,
                          a21 |-> (length2 * R[3] * R[2]) \div RR,
                          a22 |-> (length2 * R[3] * R[3]) \div RR,
                          b0 |-> (length2 * d * R[1]) \div RR,
                          b1 |-> (length2 * d * R[2]) \div RR,
                          b2 |-> (length2 * d * R[3]) \div RR,
                          c  |-> (length2 * d * d) \div RR], weight)
                : RR \in {Dot(R, R)}, d \in {-Dot(R, p0)}})
            : R \in {<<(length2 * p20[1]) - (p20p * p10[1]),
                       (length2 * p20[2]) - (p20p * p10[2]),
                       (length2 * p20[3]) - (p20p * p10[3])>>}})

RECURSIVE fillFaceQuadricsFrom(_, _, _, _, _, _)
fillFaceQuadricsFrom(vertex_quadrics, indices, index_count, vertex_positions, remap, i) ==
    IF i >= index_count THEN vertex_quadrics
    ELSE LET i0 == indices[i + 0]
             i1 == indices[i + 1]
             i2 == indices[i + 2]
         IN  Only({fillFaceQuadricsFrom(
                       [[[vertex_quadrics EXCEPT ![remap[i0]] = quadricAdd(@, Q)]
                            EXCEPT ![remap[i1]] = quadricAdd(@, Q)]
                            EXCEPT ![remap[i2]] = quadricAdd(@, Q)],
                       indices, index_count, vertex_positions, remap, i + 3)
                   : Q \in {quadricFromTriangle(vertex_positions[i0], vertex_positions[i1],
                                                vertex_positions[i2])}})

fillFaceQuadrics(vertex_quadrics, indices, index_count, vertex_positions, remap) ==
    fillFaceQuadricsFrom(vertex_quadrics, indices, index_count, vertex_positions, remap, 0)

kEdgeWeightSeam == 1
kEdgeWeightBorder == 10

\* next[e]
NextCorner(e) == (e + 1) % 3

\* the edge e of the triangle at i: nothing for an edge the loop skips
edgeQuadric(vertex_quadrics, indices, i, e, vertex_positions, remap, vertex_kind, loop) ==
    LET i0 == indices[i + e]
        i1 == indices[i + NextCorner(e)]
        k0 == vertex_kind[i0]
        k1 == vertex_kind[i1]
    IN  IF k0 # k1 \/ (k0 # Kind_Border /\ k0 # Kind_Seam) \/ loop[i0] # i1
        THEN vertex_quadrics
        ELSE LET i2 == indices[i + NextCorner(NextCorner(e))]
                 edgeWeight == IF k0 = Kind_Seam THEN kEdgeWeightSeam
                               ELSE kEdgeWeightBorder
             IN  Only({[[vertex_quadrics EXCEPT ![remap[i0]] = quadricAdd(@, Q)]
                           EXCEPT ![remap[i1]] = quadricAdd(@, Q)]
                       : Q \in {quadricFromTriangleEdge(
                                    vertex_positions[i0], vertex_positions[i1],
                                    vertex_positions[i2], edgeWeight)}})

RECURSIVE fillEdgeQuadricsFrom(_, _, _, _, _, _, _, _)
fillEdgeQuadricsFrom(vertex_quadrics, indices, index_count, vertex_positions, remap, vertex_kind, loop, i) ==
    IF i >= index_count THEN vertex_quadrics
    ELSE LET q0 == edgeQuadric(vertex_quadrics, indices, i, 0, vertex_positions, remap,
                               vertex_kind, loop)
             q1 == edgeQuadric(q0, indices, i, 1, vertex_positions, remap, vertex_kind, loop)
             q2 == edgeQuadric(q1, indices, i, 2, vertex_positions, remap, vertex_kind, loop)
         IN  fillEdgeQuadricsFrom(q2, indices, index_count, vertex_positions, remap,
                                  vertex_kind, loop, i + 3)

fillEdgeQuadrics(vertex_quadrics, indices, index_count, vertex_positions, remap, vertex_kind, loop) ==
    fillEdgeQuadricsFrom(vertex_quadrics, indices, index_count, vertex_positions, remap,
                         vertex_kind, loop, 0)

-----------------------------------------------------------------------------
(* The collapse pass.  A Collapse is [v0, v1, bidi] after pickEdgeCollapses *)
(* and [v0, v1, error] after rankEdgeCollapses; the array of collapses is a *)
(* sequence, collapses[k + 1] being the code's collapses[k].                *)

\* the candidates of the edge e of the triangle at i: none, or one
pickEdge(indices, i, e, remap, vertex_kind, loop) ==
    LET i0 == indices[i + e]
        i1 == indices[i + NextCorner(e)]
        k0 == vertex_kind[i0]
        k1 == vertex_kind[i1]
    IN  IF remap[i0] = remap[i1] THEN <<>>
        ELSE IF CanCollapse(k0, k1) = 0 /\ CanCollapse(k1, k0) = 0 THEN <<>>
        ELSE IF HasOpposite(k0, k1) = 1 /\ remap[i1] > remap[i0] THEN <<>>
        ELSE IF k0 = k1 /\ (k0 = Kind_Border \/ k0 = Kind_Seam) /\ loop[i0] # i1 THEN <<>>
        ELSE IF CanCollapse(k0, k1) = 1 /\ CanCollapse(k1, k0) = 1
             THEN << [v0 |-> i0, v1 |-> i1, bidi |-> 1] >>
             ELSE LET e0 == IF CanCollapse(k0, k1) = 1 THEN i0 ELSE i1
                      e1 == IF CanCollapse(k0, k1) = 1 THEN i1 ELSE i0
                  IN  << [v0 |-> e0, v1 |-> e1, bidi |-> 0] >>

RECURSIVE pickEdgeCollapsesFrom(_, _, _, _, _, _, _)
pickEdgeCollapsesFrom(collapses, indices, index_count, remap, vertex_kind, loop, i) ==
    IF i >= index_count THEN collapses
    ELSE pickEdgeCollapsesFrom(
             collapses \o pickEdge(indices, i, 0, remap, vertex_kind, loop)
                       \o pickEdge(indices, i, 1, remap, vertex_kind, loop)
                       \o pickEdge(indices, i, 2, remap, vertex_kind, loop),
             indices, index_count, remap, vertex_kind, loop, i + 3)

pickEdgeCollapses(indices, index_count, remap, vertex_kind, loop) ==
    pickEdgeCollapsesFrom(<<>>, indices, index_count, remap, vertex_kind, loop, 0)


\* rankEdgeCollapse that tries the other direction whatever bidi is
rankEdgeCollapse_bothways(c, vertex_positions, vertex_quadrics, remap) ==
    LET i0 == c.v0
        i1 == c.v1
        ei == quadricError(vertex_quadrics[remap[i0]], vertex_positions[i1])
        ej == quadricError(vertex_quadrics[remap[i1]], vertex_positions[i0])
    IN  [v0 |-> IF ei <= ej THEN i0 ELSE i1,
         v1 |-> IF ei <= ej THEN i1 ELSE i0,
         error |-> IF ei <= ej THEN ei ELSE ej]

rankEdgeCollapse(c, vertex_positions, vertex_quadrics, remap) ==
    LET i0 == c.v0
        i1 == c.v1
        j0 == IF c.bidi # 0 THEN i1 ELSE i0
        j1 == IF c.bidi # 0 THEN i0 ELSE i1
        ei == quadricError(vertex_quadrics[remap[i0]], vertex_positions[i1])
        ej == quadricError(vertex_quadrics[remap[j0]], vertex_positions[j1])
    IN  [v0 |-> IF ei <= ej THEN i0 ELSE j0,
         v1 |-> IF ei <= ej THEN i1 ELSE j1,
         error |-> IF ei <= ej THEN ei ELSE ej]

rankEdgeCollapses(collapses, vertex_positions, vertex_quadrics, remap) ==
    [k \in 1..Len(collapses) |->
        rankEdgeCollapse(collapses[k], vertex_positions, vertex_quadrics, remap)]

\* the largest k with d * 2^k <= n, for n >= d > 0
RECURSIVE ExponentUp(_, _)
ExponentUp(n, d) == IF n >= 2 * d THEN 1 + ExponentUp(n, 2 * d) ELSE 0

\* the least k with n * 2^k >= d, for d >= n > 0
RECURSIVE ExponentDown(_, _)
ExponentDown(n, d) == IF n >= d THEN 0 ELSE 1 + ExponentDown(2 * n, d)

\* (errorui << 1) >> (32 - sort_bits) for the float n / d, n >= 0, d > 0: the 8
\* exponent bits and the 3 leading mantissa bits
SortKey(n, d) ==
    IF n = 0 THEN 0
    ELSE IF n >= d
    THEN LET k == ExponentUp(n, d)
         IN  ((127 + k) * 8) + (((8 * n) \div (d * Pow2(k))) - 8)
    ELSE LET k == ExponentDown(n, d)
         IN  ((127 - k) * 8) + (((8 * n * Pow2(k)) \div d) - 8)


\* sortEdgeCollapses that leaves the candidates in input order
sortEdgeCollapses_input(collapses, err_den) ==
    [p \in 1..Len(collapses) |-> p - 1]

\* The counting sort: histogram[key] after the prefix sum is the number of collapses
\* with a smaller key, and the fill hands collapse i the next free place of its key,
\* that is the number of collapses before i with the same key.
sortEdgeCollapses(collapses, err_den) ==
    LET N == Len(collapses)
        key == [k \in 1..N |-> SortKey(collapses[k].error, 2 * err_den)]
        place == [k \in 1..N |->
                    Cardinality({j \in 1..N : key[j] < key[k]})
                  + Cardinality({j \in 1..(k - 1) : key[j] = key[k]})]
    IN  [p \in 1..N |-> (CHOOSE k \in 1..N : place[k] = p - 1) - 1]


\* performEdgeCollapse that neither reads nor sets collapse_locked
performEdgeCollapse_unlocked(st, c, remap, wedge, vertex_kind) ==
    LET i0 == c.v0
        i1 == c.v1
        r0 == remap[i0]
        r1 == remap[i1]
        s0 == wedge[i0]
        s1 == wedge[i1]
    IN  [collapse_remap  |-> IF vertex_kind[i0] = Kind_Seam
                             THEN [[st.collapse_remap EXCEPT ![i0] = i1] EXCEPT ![s0] = s1]
                             ELSE [st.collapse_remap EXCEPT ![i0] = i1],
         collapse_locked |-> st.collapse_locked,
         vertex_quadrics |-> [st.vertex_quadrics EXCEPT
                                 ![r1] = quadricAdd(@, st.vertex_quadrics[r0])],
         triangle_collapses |-> st.triangle_collapses
                                + (IF vertex_kind[i0] = Kind_Border THEN 1 ELSE 2),
         edge_collapses |-> st.edge_collapses + 1,
         applied |-> Append(st.applied, c),
         asserts |-> st.asserts
                     /\ st.collapse_remap[r0] = r0 /\ st.collapse_remap[r1] = r1]


\* performEdgeCollapse that moves the source only, whatever its kind
performEdgeCollapse_single(st, c, remap, wedge, vertex_kind) ==
    LET i0 == c.v0
        i1 == c.v1
        r0 == remap[i0]
        r1 == remap[i1]
    IN  IF st.collapse_locked[r0] = 1 \/ st.collapse_locked[r1] = 1 THEN st
        ELSE [collapse_remap  |-> [st.collapse_remap EXCEPT ![i0] = i1],
              collapse_locked |-> [[st.collapse_locked EXCEPT ![r0] = 1] EXCEPT ![r1] = 1],
              vertex_quadrics |-> [st.vertex_quadrics EXCEPT
                                      ![r1] = quadricAdd(@, st.vertex_quadrics[r0])],
              triangle_collapses |-> st.triangle_collapses
                                     + (IF vertex_kind[i0] = Kind_Border THEN 1 ELSE 2),
              edge_collapses |-> st.edge_collapses + 1,
              applied |-> Append(st.applied, c),
              asserts |-> st.asserts
                          /\ st.collapse_remap[r0] = r0 /\ st.collapse_remap[r1] = r1]

\* one iteration of performEdgeCollapses' loop, past the two breaks
performEdgeCollapse(st, c, remap, wedge, vertex_kind) ==
    LET i0 == c.v0
        i1 == c.v1
        r0 == remap[i0]
        r1 == remap[i1]
    IN  IF st.collapse_locked[r0] = 1 \/ st.collapse_locked[r1] = 1 THEN st
        ELSE LET s0 == wedge[i0]
                 s1 == wedge[i1]
                 cr == IF vertex_kind[i0] = Kind_Seam
                       THEN [[st.collapse_remap EXCEPT ![i0] = i1] EXCEPT ![s0] = s1]
                       ELSE [st.collapse_remap EXCEPT ![i0] = i1]
             IN  [collapse_remap  |-> cr,
                  collapse_locked |-> [[st.collapse_locked EXCEPT ![r0] = 1] EXCEPT ![r1] = 1],
                  vertex_quadrics |-> [st.vertex_quadrics EXCEPT
                                          ![r1] = quadricAdd(@, st.vertex_quadrics[r0])],
                  triangle_collapses |-> st.triangle_collapses
                                         + (IF vertex_kind[i0] = Kind_Border THEN 1 ELSE 2),
                  edge_collapses |-> st.edge_collapses + 1,
                  applied |-> Append(st.applied, c),
                  asserts |-> st.asserts
                              /\ st.collapse_remap[r0] = r0 /\ st.collapse_remap[r1] = r1
                              /\ (IF vertex_kind[i0] = Kind_Seam
                                  THEN s0 # i0 /\ s1 # i1 /\ wedge[s0] = i0 /\ wedge[s1] = i1
                                  ELSE wedge[i0] = i0)]

RECURSIVE performEdgeCollapsesFrom(_, _, _, _, _, _, _, _, _)
performEdgeCollapsesFrom(st, collapses, collapse_order, remap, wedge, vertex_kind, triangle_collapse_goal, error_limit, i) ==
    IF i >= Len(collapses) THEN st
    ELSE LET c == collapses[collapse_order[i + 1] + 1]
         IN  IF c.error > error_limit THEN st
             ELSE IF st.triangle_collapses >= triangle_collapse_goal THEN st
             ELSE performEdgeCollapsesFrom(
                      performEdgeCollapse(st, c, remap, wedge, vertex_kind),
                      collapses, collapse_order, remap, wedge, vertex_kind,
                      triangle_collapse_goal, error_limit, i + 1)

\* applied lists the collapses applied, in order; asserts is the conjunction of the
\* function's assertions
performEdgeCollapses(collapse_remap, collapse_locked, vertex_quadrics, collapses, collapse_order, remap, wedge, vertex_kind, triangle_collapse_goal, error_limit) ==
    performEdgeCollapsesFrom(
        [collapse_remap |-> collapse_remap, collapse_locked |-> collapse_locked,
         vertex_quadrics |-> vertex_quadrics, triangle_collapses |-> 0,
         edge_collapses |-> 0, applied |-> <<>>, asserts |-> TRUE],
        collapses, collapse_order, remap, wedge, vertex_kind, triangle_collapse_goal,
        error_limit, 0)


\* keepTriangle without the test
keepTriangle_always(v0, v1, v2) == TRUE

\* whether remapIndexBuffer keeps the triangle
keepTriangle(v0, v1, v2) == v0 # v1 /\ v0 # v2 /\ v1 # v2

RECURSIVE remapIndexBufferFrom(_, _, _, _, _, _)
remapIndexBufferFrom(indices, index_count, collapse_remap, i, write, asserts) ==
    IF i >= index_count THEN [indices |-> indices, write |-> write, asserts |-> asserts]
    ELSE LET v0 == collapse_remap[indices[i + 0]]
             v1 == collapse_remap[indices[i + 1]]
             v2 == collapse_remap[indices[i + 2]]
             ok == collapse_remap[v0] = v0 /\ collapse_remap[v1] = v1
                   /\ collapse_remap[v2] = v2
         IN  IF keepTriangle(v0, v1, v2)
             THEN remapIndexBufferFrom(
                      [k \in DOMAIN indices |->
                          IF k = write + 0 THEN v0
                          ELSE IF k = write + 1 THEN v1
                          ELSE IF k = write + 2 THEN v2 ELSE indices[k]],
                      index_count, collapse_remap, i + 3, write + 3, asserts /\ ok)
             ELSE remapIndexBufferFrom(indices, index_count, collapse_remap, i + 3, write,
                                       asserts /\ ok)


\* remapIndexBuffer that remaps the indices and drops no triangle
remapIndexBuffer_keepall(indices, index_count, collapse_remap) ==
    [indices |-> [k \in DOMAIN indices |->
                     IF k < index_count THEN collapse_remap[indices[k]] ELSE indices[k]],
     write |-> index_count, asserts |-> TRUE]

remapIndexBuffer(indices, index_count, collapse_remap) ==
    remapIndexBufferFrom(indices, index_count, collapse_remap, 0, 0, TRUE)

RECURSIVE remapEdgeLoopsFrom(_, _, _, _)
remapEdgeLoopsFrom(loop, vertex_count, collapse_remap, i) ==
    IF i >= vertex_count THEN loop
    ELSE IF loop[i] # NoVertex
    THEN LET l == loop[i]
             r == collapse_remap[l]
         IN  remapEdgeLoopsFrom([loop EXCEPT ![i] = IF i = r THEN loop[l] ELSE r],
                                vertex_count, collapse_remap, i + 1)
    ELSE remapEdgeLoopsFrom(loop, vertex_count, collapse_remap, i + 1)

remapEdgeLoops(loop, vertex_count, collapse_remap) ==
    remapEdgeLoopsFrom(loop, vertex_count, collapse_remap, 0)

-----------------------------------------------------------------------------
(* meshopt_simplify, as the state it builds before the loop and one         *)
(* iteration of the loop.  result is the memory destination points to;      *)
(* when destination == indices (aliased) it is the memory of indices too.   *)

\* the memory result points to when the loop starts
initialResult(destination, indices, aliased) ==
    IF aliased THEN indices ELSE [k \in DOMAIN destination |-> indices[k]]


\* passBuffer that reads the index buffer of the caller
passBuffer_indices(result, indices) == indices

\* the buffer a collapse pass reads and compacts
passBuffer(result, indices) == result


\* loopCondition that runs a pass at the target too
loopCondition_orequal(result_count, target_index_count) ==
    result_count >= target_index_count

\* the condition of the loop
loopCondition(result_count, target_index_count) == result_count > target_index_count

\* error_goal * kPassErrorBound
passErrorBound(error) == (error * 3) \div 2


\* errorLimit without target_error
errorLimit_goal(error_goal, target_error) == error_goal

\* error_limit, from error_goal and target_error
errorLimit(error_goal, target_error) ==
    IF error_goal > target_error THEN target_error ELSE error_goal

\* target_error, a number of whole units or FLT_MAX, in units of 1 / (2 * ErrDen)
errorUnits(target_error, extent) ==
    IF target_error = FLT_MAX THEN FLT_MAX ELSE target_error * 2 * ErrDen(extent)

simplifySetup(destination, indices, index_count, vertex_positions_data, vertex_count, aliased) ==
    Only({
        Only({
            [remap |-> rw.remap, wedge |-> rw.wedge, vertex_kind |-> cl.vertex_kind,
             loop |-> cl.loop, vertex_positions |-> rp.result, extent |-> rp.extent,
             vertex_quadrics |->
                 fillEdgeQuadrics(
                     fillFaceQuadrics([v \in Range0(vertex_count) |-> ZeroQuadric],
                                      indices, index_count, rp.result, rw.remap),
                     indices, index_count, rp.result, rw.remap, cl.vertex_kind, cl.loop),
             result |-> initialResult(destination, indices, aliased),
             result_count |-> index_count]
            : cl \in {classifyVertices(vertex_count, adjacency, rw.remap, rw.wedge)}})
        : adjacency \in {buildEdgeAdjacency(indices, index_count, vertex_count)},
          rw \in {buildPositionRemap(vertex_positions_data, vertex_count)},
          rp \in {rescalePositions(vertex_positions_data, vertex_count)}})

\* One iteration of the loop, entered with result_count > target_index_count.
\* exit is TRUE when the iteration leaves the loop by a break.
simplifyPass(result, indices, result_count, loop, vertex_quadrics, cx, vertex_count, target_index_count, target_error) ==
    LET picked == pickEdgeCollapses(passBuffer(result, indices), result_count, cx.remap,
                                    cx.vertex_kind, loop)
        edge_collapse_count == Len(picked)
        edge_collapses == rankEdgeCollapses(picked, cx.vertex_positions, vertex_quadrics,
                                            cx.remap)
        collapse_order == sortEdgeCollapses(edge_collapses, ErrDen(cx.extent))
        triangle_collapse_goal == (result_count - target_index_count) \div 3
        edge_collapse_goal == triangle_collapse_goal \div 2
        error_goal == IF edge_collapse_goal < edge_collapse_count
                      THEN passErrorBound(
                               edge_collapses[collapse_order[edge_collapse_goal + 1] + 1].error)
                      ELSE FLT_MAX
        error_limit == errorLimit(error_goal, errorUnits(target_error, cx.extent))
        done == performEdgeCollapses([i \in Range0(vertex_count) |-> i],
                                     [i \in Range0(vertex_count) |-> 0],
                                     vertex_quadrics, edge_collapses, collapse_order,
                                     cx.remap, cx.wedge, cx.vertex_kind,
                                     triangle_collapse_goal, error_limit)
        new_loop == remapEdgeLoops(loop, vertex_count, done.collapse_remap)
        compacted == remapIndexBuffer(passBuffer(result, indices), result_count,
                                      done.collapse_remap)
        none == [picked |-> picked, edge_collapses |-> <<>>, collapse_order |-> <<>>,
                 error_limit |-> 0, applied |-> <<>>,
                 collapse_remap |-> [i \in Range0(vertex_count) |-> i]]
    IN  IF edge_collapse_count = 0
        THEN [exit |-> TRUE, result |-> result, result_count |-> result_count,
              loop |-> loop, vertex_quadrics |-> vertex_quadrics, asserts |-> TRUE,
              pass |-> none]
        ELSE IF done.edge_collapses = 0
        THEN [exit |-> TRUE, result |-> result, result_count |-> result_count,
              loop |-> loop, vertex_quadrics |-> done.vertex_quadrics,
              asserts |-> done.asserts,
              pass |-> [picked |-> picked, edge_collapses |-> edge_collapses,
                        collapse_order |-> collapse_order, error_limit |-> error_limit,
                        applied |-> <<>>, collapse_remap |-> done.collapse_remap]]
        ELSE [exit |-> FALSE, result |-> compacted.indices,
              result_count |-> compacted.write,
              loop |-> new_loop, vertex_quadrics |-> done.vertex_quadrics,
              asserts |-> done.asserts /\ compacted.asserts
                          /\ compacted.write < result_count,
              pass |-> [picked |-> picked, edge_collapses |-> edge_collapses,
                        collapse_order |-> collapse_order, error_limit |-> error_limit,
                        applied |-> done.applied, collapse_remap |-> done.collapse_remap]]

-----------------------------------------------------------------------------
(* meshopt_simplifySloppy (SLOP_TARGET_BINARY, SLOP_TARGET_CELLS_APPROX,    *)
(* SLOP_CACHE_ERRORS; no SLOP_FILTER_DUPLICATES).                           *)

HashCellHasher_hash(id) ==
    LET h0 == U32(id)
        h1 == Xor32(h0, Shr32(h0, 13))
        h2 == Mul32(h1, MurmurM)
    IN  Xor32(h2, Shr32(h2, 15))

\* int(v * 1023.5f + 0.5f) for the coordinate v = q / ScaleDen(extent), or 0 * q
gridCoordinate(q, extent) ==
    IF extent = 0 THEN 0 ELSE ((q * 2047) + extent) \div (2 * extent)

\* (xi << 20) | (yi << 10) | zi
vertexId(v, extent) ==
    BitOr(BitOr(gridCoordinate(v[1], extent) * 1048576,
                gridCoordinate(v[2], extent) * 1024, 31),
          gridCoordinate(v[3], extent), 31)


\* passMask that starts at 10 bits per axis and drops one bit per pass
passMask_down(pass) ==
    LET maskc == 1024 - Pow2(pass)
    IN  (maskc * 1048576) + (maskc * 1024) + maskc

\* mask of the pass: maskc = 1023 & ~((1 << (9 - pass)) - 1)
passMask(pass) ==
    LET maskc == 1024 - Pow2(9 - pass)
    IN  (maskc * 1048576) + (maskc * 1024) + maskc

\* cell_count of the pass: every vertex adds 1 - count_table[hash] and sets
\* count_table[hash], so that the sum is the number of slots that were hit
approxCellCount(vertex_ids, vertex_count, mask, count_table_size) ==
    Cardinality({HashCellHasher_hash(BitAnd(vertex_ids[i], mask, 31))[2] % count_table_size :
                    i \in Range0(vertex_count)})

RECURSIVE findMaskFrom(_, _, _, _, _)
findMaskFrom(vertex_ids, vertex_count, target_cell_count, count_table_size, pass) ==
    Only({IF cell_count >= target_cell_count \/ pass + 1 >= 10
          THEN [mask |-> passMask(pass), pass |-> pass, cell_count |-> cell_count]
          ELSE findMaskFrom(vertex_ids, vertex_count, target_cell_count, count_table_size,
                            pass + 1)
          : cell_count \in {approxCellCount(vertex_ids, vertex_count, passMask(pass),
                                            count_table_size)}})

\* table[b] is a HashCell [id, cell]; an entry equals dummy when its id is ~0u
RECURSIVE fillCellsFrom(_, _, _, _, _, _, _, _)
fillCellsFrom(vertex_cells, table, table_size, cell_count, vertex_ids, mask, i, vertex_count) ==
    IF i >= vertex_count THEN [vertex_cells |-> vertex_cells, cell_count |-> cell_count]
    ELSE Only({
             Only({
                 IF table[entry].id = NoVertex
                 THEN fillCellsFrom([vertex_cells EXCEPT ![i] = cell_count],
                                    [table EXCEPT ![entry] = [id |-> id, cell |-> cell_count]],
                                    table_size, cell_count + 1, vertex_ids, mask, i + 1,
                                    vertex_count)
                 ELSE fillCellsFrom([vertex_cells EXCEPT ![i] = table[entry].cell], table,
                                    table_size, cell_count, vertex_ids, mask, i + 1,
                                    vertex_count)
                 : entry \in {hashLookup2([b \in Range0(table_size) |-> table[b].id],
                                          table_size, HashCellHasher_hash(id), {id},
                                          NoVertex)}})
             : id \in {BitAnd(vertex_ids[i], mask, 31)}})

RECURSIVE cellRemapFrom(_, _, _, _, _, _, _)
cellRemapFrom(cell_remap, cell_errors, cell_quadrics, vertex_cells, vertex_positions, i, vertex_count) ==
    IF i >= vertex_count THEN cell_remap
    ELSE LET cell == vertex_cells[i]
             ei == quadricError(cell_quadrics[cell], vertex_positions[i])
         IN  IF cell_remap[cell] = NoVertex
             THEN cellRemapFrom([cell_remap EXCEPT ![cell] = i],
                                [cell_errors EXCEPT ![cell] = ei],
                                cell_quadrics, vertex_cells, vertex_positions, i + 1,
                                vertex_count)
             ELSE LET j  == cell_remap[cell]
                      ej == cell_errors[cell]
                  IN  cellRemapFrom([cell_remap EXCEPT ![cell] = IF ei < ej THEN i ELSE j],
                                    [cell_errors EXCEPT ![cell] = IF ei < ej THEN ei ELSE ej],
                                    cell_quadrics, vertex_cells, vertex_positions, i + 1,
                                    vertex_count)


\* sloppyIndex, counting the vertices from 1
sloppyIndex_from1(v, cell_remap, vertex_cells) == cell_remap[vertex_cells[v]] + 1

\* the index the sloppy path writes for the index v of the input
sloppyIndex(v, cell_remap, vertex_cells) == cell_remap[vertex_cells[v]]

\* The loop that writes the triangles.  When destination == indices a write to
\* destination is a write to indices.
RECURSIVE sloppyEmitFrom(_, _, _, _, _, _, _, _)
sloppyEmitFrom(destination, indices, aliased, index_count, cell_remap, vertex_cells, i, write) ==
    IF i >= index_count
    THEN [destination |-> destination, indices |-> indices, write |-> write]
    ELSE LET v0 == sloppyIndex(indices[i + 0], cell_remap, vertex_cells)
             v1 == sloppyIndex(indices[i + 1], cell_remap, vertex_cells)
             v2 == sloppyIndex(indices[i + 2], cell_remap, vertex_cells)
         IN  IF v0 # v1 /\ v0 # v2 /\ v1 # v2
             THEN LET d == [k \in DOMAIN destination |->
                               IF k = write + 0 THEN v0
                               ELSE IF k = write + 1 THEN v1
                               ELSE IF k = write + 2 THEN v2 ELSE destination[k]]
                  IN  sloppyEmitFrom(d, IF aliased THEN d ELSE indices, aliased,
                                     index_count, cell_remap, vertex_cells, i + 3, write + 3)
             ELSE sloppyEmitFrom(destination, indices, aliased, index_count, cell_remap,
                                 vertex_cells, i + 3, write)


\* targetCellCount with one cell for every triangle
targetCellCount_triangles(target_index_count) == target_index_count \div 3

\* the cell count the grid search aims at
targetCellCount(target_index_count) == target_index_count \div 6

simplifySloppy(destination, indices, index_count, vertex_positions_data, vertex_count, target_index_count, aliased) ==
    LET target_cell_count == targetCellCount(target_index_count)
        table_size == hashBuckets2(vertex_count)
        count_table_size == hashBuckets2(target_cell_count * 4)
    IN  IF target_cell_count = 0
        THEN [ret |-> 0, destination |-> destination, indices |-> indices,
              grid |-> [pass |-> 0, mask |-> 0, approx_count |-> 0, cell_count |-> 0,
                        vertex_ids |-> <<>>, vertex_cells |-> <<>>, cell_remap |-> <<>>]]
        ELSE
        Only({ Only({ Only({ Only({ Only({ Only({
            [ret |-> out.write, destination |-> out.destination, indices |-> out.indices,
             grid |-> [pass |-> found.pass, mask |-> found.mask,
                       approx_count |-> found.cell_count,
                       cell_count |-> cells.cell_count, vertex_ids |-> vertex_ids,
                       vertex_cells |-> cells.vertex_cells, cell_remap |-> cell_remap]]
            : out \in {sloppyEmitFrom(destination, indices, aliased, index_count,
                                      cell_remap, cells.vertex_cells, 0, 0)}})
            : cell_remap \in {cellRemapFrom(
                                  [c \in Range0(cells.cell_count) |-> NoVertex],
                                  [c \in Range0(cells.cell_count) |-> 0],
                                  fillFaceQuadrics(
                                      [c \in Range0(cells.cell_count) |-> ZeroQuadric],
                                      indices, index_count, rp.result, cells.vertex_cells),
                                  cells.vertex_cells, rp.result, 0, vertex_count)}})
            : cells \in {fillCellsFrom(
                             [i \in Range0(vertex_count) |-> 0],
                             [b \in Range0(table_size) |->
                                 [id |-> NoVertex, cell |-> NoVertex]],
                             table_size, 0, vertex_ids, found.mask, 0, vertex_count)}})
            : found \in {findMaskFrom(vertex_ids, vertex_count, target_cell_count,
                                      count_table_size, 0)}})
            : vertex_ids \in {[i \in Range0(vertex_count) |->
                                  vertexId(rp.result[i], rp.extent)]}})
            : rp \in {rescalePositions(vertex_positions_data, vertex_count)}})

-----------------------------------------------------------------------------
(* The calls.  A call of meshopt_simplify runs its set-up, then its loop    *)
(* one pass at a time, then returns; a call of meshopt_simplifySloppy is    *)
(* one step.  After meshopt_simplify has returned, the caller may call it   *)
(* once more on the index buffer it got back, with the same vertex data,    *)
(* target_index_count and target_error.                                     *)


\* meshopt_simplify from the call to the return: the loop, then the call
RECURSIVE simplifyLoop(_, _, _, _, _, _, _, _, _, _)
simplifyLoop(result, indices, result_count, loop, vertex_quadrics, cx, vertex_count, target_index_count, target_error, aliased) ==
    IF ~loopCondition(result_count, target_index_count)
    THEN [ret |-> result_count, destination |-> result, indices |-> indices]
    ELSE LET p == simplifyPass(result, indices, result_count, loop, vertex_quadrics, cx,
                               vertex_count, target_index_count, target_error)
         IN  IF p.exit
             THEN [ret |-> p.result_count, destination |-> p.result, indices |-> indices]
             ELSE simplifyLoop(p.result, IF aliased THEN p.result ELSE indices,
                               p.result_count, p.loop, p.vertex_quadrics, cx, vertex_count,
                               target_index_count, target_error, aliased)

simplify(destination, indices, index_count, vertex_positions_data, vertex_count, target_index_count, target_error, aliased) ==
    LET s == simplifySetup(destination, indices, index_count, vertex_positions_data,
                           vertex_count, aliased)
    IN  simplifyLoop(s.result, IF aliased THEN s.result ELSE indices, s.result_count,
                     s.loop, s.vertex_quadrics, s, vertex_count, target_index_count,
                     target_error, aliased)

VARIABLES position_remap, algo, aliased, indices, index_count, vertex_positions_data, vertex_count, target_index_count, target_error, destination, pc, ret, result_count, cx, loop, vertex_quadrics, pass, passes, asserts, grid, run, first, input

vars == <<position_remap, algo, aliased, indices, index_count, vertex_positions_data, vertex_count, target_index_count, target_error, destination, pc, ret, result_count, cx, loop, vertex_quadrics, pass, passes, asserts, grid, run, first, input>>

\* a tuple as the array it initialises
Buffer(t) == [k \in Range0(Len(t)) |-> t[k + 1]]

Mesh(index_tuple, position_tuple) ==
    [indices |-> Buffer(index_tuple), index_count |-> Len(index_tuple),
     vertex_positions_data |-> Buffer(position_tuple),
     vertex_count |-> Len(position_tuple)]

\* no vertex and no triangle
EmptyMesh == Mesh(<<>>, <<>>)

\* a square of two triangles
QuadMesh ==
    Mesh(<<0, 1, 2, 0, 2, 3>>,
         <<<<0, 0, 0>>, <<2, 0, 0>>, <<2, 2, 0>>, <<0, 2, 0>>>>)

\* four triangles around vertex 4, which is the only Manifold vertex
FanMesh ==
    Mesh(<<0, 1, 4, 1, 2, 4, 2, 3, 4, 3, 0, 4>>,
         <<<<0, 0, 0>>, <<2, 0, 0>>, <<2, 2, 0>>, <<0, 2, 0>>, <<1, 1, 0>>>>)

\* a square with both of its sides: every edge has its opposite
PillowMesh ==
    Mesh(<<0, 1, 2, 0, 2, 3, 2, 1, 0, 3, 2, 0>>,
         <<<<0, 0, 0>>, <<1, 0, 0>>, <<1, 1, 0>>, <<0, 1, 0>>>>)

\* the triangle 0 3 4 touches the triangle 0 1 2 at vertex 0 only and the
\* triangle 3 5 6 at vertex 3 only
ChainMesh ==
    Mesh(<<0, 3, 4, 0, 1, 2, 3, 5, 6>>,
         <<<<0, 0, 0>>, <<1, 0, 0>>, <<0, 1, 0>>, <<2, 2, 0>>, <<0, 2, 0>>,
           <<4, 2, 0>>, <<2, 4, 0>>>>)

\* two squares side by side; the vertices 4 and 5 repeat the positions of the
\* vertices 1 and 2, so that the edge between the squares is an attribute seam
SeamMesh ==
    Mesh(<<0, 1, 2, 0, 2, 3, 4, 6, 7, 4, 7, 5>>,
         <<<<0, 0, 0>>, <<1, 0, 0>>, <<1, 1, 0>>, <<0, 1, 0>>, <<1, 0, 0>>,
           <<1, 1, 0>>, <<2, 0, 0>>, <<2, 1, 0>>>>)

\* one triangle, three times
TripleMesh ==
    Mesh(<<0, 1, 2, 0, 2, 1, 1, 0, 2>>,
         <<<<0, 0, 0>>, <<1, 0, 0>>, <<2, 1, 0>>>>)

\* a strip of three squares, flat
StripMesh ==
    Mesh(<<0, 1, 5, 0, 5, 4, 1, 2, 6, 1, 6, 5, 2, 3, 7, 2, 7, 6>>,
         <<<<0, 0, 0>>, <<1, 0, 0>>, <<2, 0, 0>>, <<4, 0, 0>>,
           <<0, 1, 0>>, <<1, 1, 0>>, <<2, 1, 0>>, <<4, 1, 0>>>>)


\* four triangles around the Manifold vertex 4, folded along the line through
\* the vertices 0, 4 and 2; a fifth triangle touches vertex 3 only, which makes
\* vertex 3 Locked
FoldMesh ==
    Mesh(<<0, 1, 4, 1, 2, 4, 2, 3, 4, 3, 0, 4, 3, 5, 6>>,
         <<<<2, 0, 0>>, <<2, 1, 1>>, <<2, 2, 0>>, <<1, 1, 0>>, <<2, 1, 0>>,
           <<0, 0, 0>>, <<0, 2, 0>>>>)

\* one triangle over three vertices
TriangleMesh ==
    Mesh(<<0, 1, 2>>, <<<<0, 0, 0>>, <<2, 0, 0>>, <<0, 1, 0>>>>)

\* three triangles around one position, each with a vertex of its own there:
\* the vertices 0, 1 and 2 share the position <<1, 1, 0>>
WedgeMesh ==
    Mesh(<<0, 3, 4, 1, 4, 5, 2, 5, 6>>,
         <<<<1, 1, 0>>, <<1, 1, 0>>, <<1, 1, 0>>, <<2, 1, 0>>, <<1, 2, 0>>,
           <<0, 1, 0>>, <<1, 0, 0>>>>)

\* a triangle with both of its sides, the back side over vertices of its own
\* (3, 4 and 5 repeat the positions of 0, 1 and 2): every edge is an attribute
\* seam and no edge is on a border
SeamLoopMesh ==
    Mesh(<<0, 1, 2, 5, 4, 3>>,
         <<<<0, 0, 0>>, <<2, 0, 0>>, <<0, 1, 0>>, <<0, 0, 0>>, <<2, 0, 0>>, <<0, 1, 0>>>>)

\* a closed box of 4 by 5 by 8 with two triangles a side: every vertex is
\* Manifold and the collapse errors differ from edge to edge
BoxMesh ==
    Mesh(<<0, 2, 3, 0, 3, 1, 4, 5, 7, 4, 7, 6, 0, 1, 5, 0, 5, 4,
           6, 7, 3, 6, 3, 2, 0, 4, 6, 0, 6, 2, 1, 3, 7, 1, 7, 5>>,
         <<<<0, 0, 0>>, <<4, 0, 0>>, <<0, 5, 0>>, <<4, 5, 0>>,
           <<0, 0, 8>>, <<4, 0, 8>>, <<0, 5, 8>>, <<4, 5, 8>>>>)

\* a flat rectangle of 1 by 3, two triangles
SlabMesh ==
    Mesh(<<0, 1, 2, 0, 2, 3>>,
         <<<<0, 0, 0>>, <<1, 0, 0>>, <<1, 3, 0>>, <<0, 3, 0>>>>)

\* three triangles over four vertices that are all at one position
PointMesh ==
    Mesh(<<0, 1, 2, 0, 2, 3, 0, 3, 1>>,
         <<<<1, 2, 0>>, <<1, 2, 0>>, <<1, 2, 0>>, <<1, 2, 0>>>>)

CuratedMeshes ==
    {EmptyMesh, QuadMesh, FanMesh, PillowMesh, ChainMesh, SeamMesh, TripleMesh, StripMesh,
     FoldMesh, TriangleMesh, WedgeMesh, SeamLoopMesh, BoxMesh, SlabMesh, PointMesh}

\* The other meshes: every index buffer of at most MaxFreeFaces triangles
\* drawn from FreeFaces, over the corners of a unit square.
MaxFreeFaces == 2

FreeFaces == {<<0, 1, 2>>, <<0, 2, 1>>, <<1, 3, 2>>, <<0, 0, 1>>}

FreePositions == <<<<0, 0, 0>>, <<1, 0, 0>>, <<0, 1, 0>>, <<1, 1, 0>>>>

FreeMesh(faces) ==
    [indices |-> [k \in Range0(3 * Len(faces)) |-> faces[(k \div 3) + 1][(k % 3) + 1]],
     index_count |-> 3 * Len(faces),
     vertex_positions_data |-> Buffer(FreePositions),
     vertex_count |-> Len(FreePositions)]

FreeMeshes ==
    {FreeMesh(faces) : faces \in UNION {[1..n -> FreeFaces] : n \in 0..MaxFreeFaces}}

Meshes == CuratedMeshes \cup FreeMeshes

\* target_index_count <= index_count, in whole triangles
Targets(count) == {t \in 0..count : t % 3 = 0}

\* target_error, in whole units (see errorUnits)
TargetErrors == {0, 1, FLT_MAX}

\* destination before the call: indices itself, or index_count entries that
\* were never written
freshDestination(buffer, count, alias) ==
    IF alias THEN buffer ELSE [k \in Range0(count) |-> NoVertex]

NoPass ==
    [picked |-> <<>>, edge_collapses |-> <<>>, collapse_order |-> <<>>,
     error_limit |-> 0, applied |-> <<>>, collapse_remap |-> <<>>]

NoContext ==
    [remap |-> <<>>, wedge |-> <<>>, vertex_kind |-> <<>>, vertex_positions |-> <<>>,
     extent |-> 0]

NoGrid ==
    [pass |-> 0, mask |-> 0, approx_count |-> 0, cell_count |-> 0,
     vertex_ids |-> <<>>, vertex_cells |-> <<>>, cell_remap |-> <<>>]

NoFirst == [ret |-> 0, destination |-> <<>>, passes |-> 0]

NoRemap ==
    [positions |-> <<>>, vertex_count |-> 0, hash |-> <<>>, table |-> <<>>,
     remap |-> <<>>, wedge |-> <<>>, i |-> 0]

\* the first ret entries of a buffer
Prefix(buffer, count) == [k \in Range0(count) |-> buffer[k]]

Init ==
    \E m \in Meshes, a \in {"simplify", "sloppy"}, al \in BOOLEAN :
        \E t \in Targets(m.index_count), te \in TargetErrors :
            /\ a = "sloppy" => te = 0
            /\ algo = a
            /\ aliased = al
            /\ indices = m.indices
            /\ input = m.indices
            /\ index_count = m.index_count
            /\ vertex_positions_data = m.vertex_positions_data
            /\ vertex_count = m.vertex_count
            /\ target_index_count = t
            /\ target_error = te
            /\ destination = freshDestination(m.indices, m.index_count, al)
            /\ pc = "call"
            /\ ret = 0
            /\ result_count = 0
            /\ cx = NoContext
            /\ loop = <<>>
            /\ vertex_quadrics = <<>>
            /\ pass = NoPass
            /\ passes = 0
            /\ asserts = TRUE
            /\ grid = NoGrid
            /\ run = 1
            /\ first = NoFirst
            /\ position_remap = NoRemap

\* meshopt_simplify up to the loop
SimplifySetup ==
    /\ pc = "call"
    /\ algo = "simplify"
    /\ \E s \in {simplifySetup(destination, indices, index_count, vertex_positions_data,
                              vertex_count, aliased)} :
           /\ cx' = [remap |-> s.remap, wedge |-> s.wedge, vertex_kind |-> s.vertex_kind,
                     vertex_positions |-> s.vertex_positions, extent |-> s.extent]
           /\ loop' = s.loop
           /\ vertex_quadrics' = s.vertex_quadrics
           /\ destination' = s.result
           /\ indices' = IF aliased THEN s.result ELSE indices
           /\ result_count' = s.result_count
    /\ pc' = "loop"
    /\ UNCHANGED <<position_remap, algo, aliased, index_count, vertex_positions_data, vertex_count, target_index_count, target_error, ret, pass, passes, asserts, grid, run, first, input>>

\* one iteration of while (result_count > target_index_count)
SimplifyPass ==
    /\ pc = "loop"
    /\ loopCondition(result_count, target_index_count)
    /\ \E p \in {simplifyPass(destination, indices, result_count, loop, vertex_quadrics, cx,
                             vertex_count, target_index_count, target_error)} :
           /\ destination' = p.result
           /\ indices' = IF aliased THEN p.result ELSE indices
           /\ result_count' = p.result_count
           /\ loop' = p.loop
           /\ vertex_quadrics' = p.vertex_quadrics
           /\ pass' = p.pass
           /\ asserts' = (asserts /\ p.asserts)
           /\ pc' = IF p.exit THEN "return" ELSE "loop"
    /\ passes' = passes + 1
    /\ UNCHANGED <<position_remap, algo, aliased, index_count, vertex_positions_data, vertex_count, target_index_count, target_error, ret, cx, grid, run, first, input>>


\* SimplifyReturn, returning the number of triangles in place of the number of indices
SimplifyReturn_triangles ==
    /\ pc = "return" \/ (pc = "loop" /\ ~loopCondition(result_count, target_index_count))
    /\ ret' = result_count \div 3
    /\ pc' = "done"
    /\ UNCHANGED <<position_remap, algo, aliased, indices, index_count, vertex_positions_data, vertex_count, target_index_count, target_error, destination, result_count, cx, loop, vertex_quadrics, pass, passes, asserts, grid, run, first, input>>

\* return result_count, after the loop or after a break
SimplifyReturn ==
    /\ pc = "return" \/ (pc = "loop" /\ ~loopCondition(result_count, target_index_count))
    /\ ret' = result_count
    /\ pc' = "done"
    /\ UNCHANGED <<position_remap, algo, aliased, indices, index_count, vertex_positions_data, vertex_count, target_index_count, target_error, destination, result_count, cx, loop, vertex_quadrics, pass, passes, asserts, grid, run, first, input>>

\* meshopt_simplifySloppy
SimplifySloppy ==
    /\ pc = "call"
    /\ algo = "sloppy"
    /\ \E r \in {simplifySloppy(destination, indices, index_count, vertex_positions_data,
                               vertex_count, target_index_count, aliased)} :
           /\ destination' = r.destination
           /\ indices' = r.indices
           /\ ret' = r.ret
           /\ grid' = r.grid
    /\ pc' = "done"
    /\ UNCHANGED <<position_remap, algo, aliased, index_count, vertex_positions_data, vertex_count, target_index_count, target_error, result_count, cx, loop, vertex_quadrics, pass, passes, asserts, run, first, input>>

\* the caller passes the returned index buffer to meshopt_simplify again
CallAgain ==
    /\ pc = "done"
    /\ algo = "simplify"
    /\ run = 1
    /\ target_index_count <= ret
    /\ first' = [ret |-> ret, destination |-> Prefix(destination, ret), passes |-> passes]
    /\ indices' = Prefix(destination, ret)
    /\ input' = Prefix(destination, ret)
    /\ index_count' = ret
    /\ destination' = freshDestination(Prefix(destination, ret), ret, aliased)
    /\ pc' = "call"
    /\ run' = 2
    /\ ret' = 0
    /\ result_count' = 0
    /\ cx' = NoContext
    /\ loop' = <<>>
    /\ vertex_quadrics' = <<>>
    /\ pass' = NoPass
    /\ passes' = 0
    /\ UNCHANGED <<position_remap, algo, aliased, vertex_positions_data, vertex_count, target_index_count, target_error, asserts, grid>>

Next ==
    \/ SimplifySetup
    \/ SimplifyPass
    \/ SimplifyReturn
    \/ SimplifySloppy
    \/ CallAgain

Spec == Init /\ [][Next]_vars

-----------------------------------------------------------------------------
(* buildPositionRemap on its own, for every hash function: the positions   *)
(* are numbers, equal for equal positions, and the bucket a position       *)
(* hashes to is any bucket of the table.                                   *)

\* the vertex counts of the tables
MaxRemapVertices == 4

\* the ways vertices 0 .. n-1 share positions: vertex i has the position of an
\* earlier vertex or the next position not used yet
PositionTables(n) ==
    {p \in [Range0(n) -> Range0(n)] :
        \A i \in Range0(n) : p[i] <= Cardinality({p[j] : j \in Range0(i)})}

RemapInit ==
    \E n \in 0..MaxRemapVertices : \E p \in PositionTables(n) :
        /\ position_remap =
               [positions |-> p, vertex_count |-> n,
                hash |-> [q \in Range0(n) |-> NoVertex],
                table |-> [b \in Range0(hashBuckets2(n)) |-> NoVertex],
                remap |-> [i \in Range0(n) |-> 0],
                wedge |-> [i \in Range0(n) |-> i], i |-> 0]
        /\ algo = "remap"
        /\ pc = "remap"
        /\ asserts = TRUE
        /\ aliased = FALSE
        /\ indices = <<>>
        /\ input = <<>>
        /\ index_count = 0
        /\ vertex_positions_data = <<>>
        /\ vertex_count = n
        /\ target_index_count = 0
        /\ target_error = 0
        /\ destination = <<>>
        /\ ret = 0
        /\ result_count = 0
        /\ cx = NoContext
        /\ loop = <<>>
        /\ vertex_quadrics = <<>>
        /\ pass = NoPass
        /\ passes = 0
        /\ grid = NoGrid
        /\ run = 1
        /\ first = NoFirst

\* one iteration of the loop that fills remap: the hash of a position seen
\* before is the one it had, the hash of a new position is any bucket
RemapEntry ==
    /\ pc = "remap"
    /\ position_remap.i < position_remap.vertex_count
    /\ \E r \in {position_remap} : \E h \in Range0(hashBuckets2(r.vertex_count)) :
           /\ r.hash[r.positions[r.i]] \in {NoVertex, h}
           /\ \E entry \in {hashLookup2(r.table, hashBuckets2(r.vertex_count), <<0, h>>,
                                        {j \in Range0(r.vertex_count) :
                                            r.positions[j] = r.positions[r.i]},
                                        NoVertex)} :
                  IF entry = HashFull
                  THEN /\ asserts' = FALSE
                       /\ pc' = "done"
                       /\ position_remap' = r
                  ELSE /\ asserts' = asserts
                       /\ pc' = pc
                       /\ position_remap' =
                              [r EXCEPT !.hash[r.positions[r.i]] = h,
                                        !.table[entry] = IF @ = NoVertex THEN r.i ELSE @,
                                        !.remap[r.i] = IF r.table[entry] = NoVertex
                                                       THEN r.i ELSE r.table[entry],
                                        !.i = r.i + 1]
    /\ UNCHANGED <<algo, aliased, indices, index_count, vertex_positions_data, vertex_count, target_index_count, target_error, destination, ret, result_count, cx, loop, vertex_quadrics, pass, passes, grid, run, first, input>>

\* the two loops that build wedge
RemapWedge ==
    /\ pc = "remap"
    /\ position_remap.i = position_remap.vertex_count
    /\ position_remap' =
           [position_remap EXCEPT
               !.wedge = buildWedgeFrom(@, position_remap.remap, 0,
                                        position_remap.vertex_count)]
    /\ pc' = "done"
    /\ UNCHANGED <<algo, aliased, indices, index_count, vertex_positions_data, vertex_count, target_index_count, target_error, destination, ret, result_count, cx, loop, vertex_quadrics, pass, passes, asserts, grid, run, first, input>>

RemapNext ==
    \/ RemapEntry
    \/ RemapWedge

RemapSpec == RemapInit /\ [][RemapNext]_vars

-----------------------------------------------------------------------------
(* The properties of the calls.                                             *)

\* the triangles the call returned
ReturnedTriangles == Range0(ret \div 3)

\* the three corners of triangle t of a buffer are pairwise different
CornersDiffer(buffer, t) ==
    /\ buffer[(3 * t) + 0] # buffer[(3 * t) + 1]
    /\ buffer[(3 * t) + 0] # buffer[(3 * t) + 2]
    /\ buffer[(3 * t) + 1] # buffer[(3 * t) + 2]

\* the index buffer the call was given has a triangle with two equal corners
InputHasDegenerate == \E t \in Range0(index_count \div 3) : ~CornersDiffer(input, t)

\* C1: the value meshopt_simplify and meshopt_simplifySloppy return is a
\* multiple of 3 and is at most index_count.
C1_ReturnCount == pc = "done" => (ret % 3 = 0 /\ ret <= index_count)

\* a call of each kind that returned some but not all of the triangles
C1_Witness ==
    /\ pc = "done"
    /\ algo = "simplify"
    /\ passes >= 2
    /\ 0 < ret
    /\ ret < index_count

\* C2: every index the call returns is below vertex_count, and so is every
\* index of the working buffer of meshopt_simplify after every pass.
C2_IndexDomain ==
    /\ pc = "done" => \A k \in Range0(ret) : destination[k] \in Range0(vertex_count)
    /\ (algo = "simplify" /\ pc \in {"loop", "return"})
           => \A k \in Range0(result_count) : destination[k] \in Range0(vertex_count)

\* meshopt_simplifySloppy returned triangles that name merged vertices
C2_Witness ==
    /\ pc = "done"
    /\ algo = "sloppy"
    /\ ret > 0
    /\ grid.cell_count < vertex_count
    /\ \E k \in Range0(ret) : destination[k] # input[k]

\* C3, as stated: every triangle either function returns has three different
\* corners, for every input and every target.
C3_AllCornersDiffer ==
    pc = "done" => \A t \in ReturnedTriangles : CornersDiffer(destination, t)

\* C3, as the code has it: every triangle meshopt_simplifySloppy returns has
\* three different corners, and so has every triangle meshopt_simplify returns
\* when its input has no triangle with two equal corners or when it returns
\* fewer than index_count indices (a pass has compacted the buffer).
C3_CornersDifferOnceCompacted ==
    (pc = "done" /\ (algo = "sloppy" \/ ~InputHasDegenerate \/ ret < index_count))
        => \A t \in ReturnedTriangles : CornersDiffer(destination, t)

\* meshopt_simplify was given a triangle with two equal corners and returned
\* some triangles, after a pass that removed it
C3_Witness ==
    /\ pc = "done"
    /\ algo = "simplify"
    /\ InputHasDegenerate
    /\ 0 < ret
    /\ ret < index_count


\* the collapses the last pass applied, and the candidates it ranked
Applied == {pass.applied[k] : k \in 1..Len(pass.applied)}

Ranked == {pass.edge_collapses[k] : k \in 1..Len(pass.edge_collapses)}

\* C4: meshopt_simplify applies no collapse whose recorded error is above
\* target_error, the error_limit of a pass is never above target_error, and
\* with target_error = 0 every applied collapse has the recorded error 0.
C4_ErrorBound ==
    algo = "simplify" =>
        /\ \A c \in Applied : c.error <= errorUnits(target_error, cx.extent)
        /\ pass.error_limit <= errorUnits(target_error, cx.extent)
        /\ target_error = 0 => \A c \in Applied : c.error = 0

\* a pass applied a collapse and left out a candidate whose error is above
\* target_error
C4_Witness ==
    /\ algo = "simplify"
    /\ target_error # FLT_MAX
    /\ Applied # {}
    /\ \E c \in Ranked : c.error > errorUnits(target_error, cx.extent)

\* C5: every collapse v0 -> v1 that performEdgeCollapses applies is one
\* kCanCollapse allows: v0 is not Locked, a Border v0 goes onto a Border v1, a
\* Seam v0 onto a Seam v1; and rankEdgeCollapses keeps the direction of every
\* record that pickEdgeCollapses emitted with bidi = 0.
C5_LegalCollapses ==
    /\ \A c \in Applied :
           LET k0 == cx.vertex_kind[c.v0]
               k1 == cx.vertex_kind[c.v1]
           IN  /\ kCanCollapse[k0 + 1][k1 + 1] = 1
               /\ k0 # Kind_Locked
               /\ k0 = Kind_Border => k1 = Kind_Border
               /\ k0 = Kind_Seam => k1 = Kind_Seam
    /\ \A k \in 1..Len(pass.edge_collapses) :
           pass.picked[k].bidi = 0
               => /\ pass.edge_collapses[k].v0 = pass.picked[k].v0
                  /\ pass.edge_collapses[k].v1 = pass.picked[k].v1

\* a pass applied a collapse of a record with bidi = 0, whose other direction
\* kCanCollapse does not allow
C5_Witness ==
    \E k \in 1..Len(pass.edge_collapses) :
        /\ pass.picked[k].bidi = 0
        /\ pass.edge_collapses[k] \in Applied
        /\ kCanCollapse[cx.vertex_kind[pass.picked[k].v1] + 1]
                       [cx.vertex_kind[pass.picked[k].v0] + 1] = 0

\* a pass that applies a collapse makes result_count smaller, and no
\* assertion of the pass fails
C6_PassDecreases ==
    [][(passes' = passes + 1 /\ pass'.applied # <<>>)
           => (result_count' < result_count /\ asserts')]_vars

\* the loop is left when result_count <= target_index_count, and a pass ends
\* the loop exactly when it has no candidate or applies no collapse
C6_PassExits ==
    [][/\ (pc = "loop" /\ result_count <= target_index_count) => pc' = "done"
       /\ passes' = passes + 1
              => /\ result_count > target_index_count
                 /\ pc' = "return" <=> (pass'.picked = <<>> \/ pass'.applied = <<>>)]_vars

\* the number of passes is bounded: every pass but the last one of a call
\* has removed a triangle
C6_PassBound ==
    [](algo = "simplify"
           => (result_count >= 0 /\ 3 * passes <= (index_count - result_count) + 3))

\* C6: the loop of meshopt_simplify terminates: a pass that applies a
\* collapse strictly decreases result_count (assert(new_count < result_count)
\* holds), and the loop is left as soon as result_count <= target_index_count,
\* no candidate exists or a pass applies no collapse.
C6_LoopTerminates == C6_PassDecreases /\ C6_PassExits /\ C6_PassBound

\* a call returned after two passes that each applied a collapse, the loop
\* being left because result_count had reached target_index_count
C6_Witness ==
    /\ pc = "done"
    /\ algo = "simplify"
    /\ passes >= 2
    /\ pass.applied # <<>>
    /\ ret <= target_index_count


\* C7, as stated: a second call of meshopt_simplify, on the index buffer the
\* first call returned and with the same target_index_count and target_error,
\* returns that index buffer again.
C7_SecondRunSame ==
    (run = 2 /\ pc = "done")
        => (ret = first.ret /\ Prefix(destination, ret) = first.destination)

\* C7, as the code has it: when the first call returned exactly
\* target_index_count indices, the second call executes no pass and returns
\* the index buffer it was given.
C7_SecondRunSameAtTarget ==
    (run = 2 /\ pc = "done" /\ first.ret = target_index_count)
        => /\ passes = 0
           /\ ret = first.ret
           /\ Prefix(destination, ret) = first.destination

\* the first call collapsed its way down to the target, and the second call
\* has returned
C7_Witness ==
    /\ run = 2
    /\ pc = "done"
    /\ first.ret = target_index_count
    /\ first.passes >= 1
    /\ 0 < ret

ReturnedVertices == {destination[k] : k \in Range0(ret)}

OtherCall ==
    IF algo = "simplify"
    THEN simplify(freshDestination(input, index_count, ~aliased), input, index_count,
                  vertex_positions_data, vertex_count, target_index_count, target_error,
                  ~aliased)
    ELSE simplifySloppy(freshDestination(input, index_count, ~aliased), input, index_count,
                        vertex_positions_data, vertex_count, target_index_count, ~aliased)

\* C9: with destination == indices either function returns the same value and
\* the same indices as with a destination of its own, and with a destination
\* of its own it leaves the index buffer as it was.
C9_AliasedSame ==
    pc = "done"
        => /\ ret = OtherCall.ret
           /\ Prefix(destination, ret) = Prefix(OtherCall.destination, ret)
           /\ ~aliased => indices = input

\* a call with destination == indices that compacted its own input in two
\* passes and returned triangles
C9_Witness ==
    /\ pc = "done"
    /\ aliased
    /\ algo = "simplify"
    /\ passes >= 2
    /\ 0 < ret
    /\ indices # input

\* C10: with target_index_count == index_count meshopt_simplify executes no
\* pass and returns index_count, the destination holding the input indices in
\* their order.
C10_TargetIsCount ==
    (pc = "done" /\ algo = "simplify" /\ target_index_count = index_count)
        => /\ passes = 0
           /\ ret = index_count
           /\ destination = input

\* a call with its own destination and target_index_count == index_count > 0
\* has returned
C10_Witness ==
    /\ pc = "done"
    /\ algo = "simplify"
    /\ run = 1
    /\ ~aliased
    /\ target_index_count = index_count
    /\ index_count >= 6


\* the input is one triangle whose corners are three vertices at three positions
SingleTriangle ==
    /\ index_count = 3
    /\ CornersDiffer(input, 0)
    /\ CornersDiffer([k \in Range0(3) |-> vertex_positions_data[input[k]]], 0)

HalfEdges == Range0(index_count \div 3) \X Range0(3)

HalfEdgeFrom(h) == input[(3 * h[1]) + h[2]]

HalfEdgeTo(h) == input[(3 * h[1]) + ((h[2] + 1) % 3)]

\* the half-edges that leave v and have no half-edge in the other direction
OpenEdges(v) ==
    {h \in HalfEdges :
        /\ HalfEdgeFrom(h) = v
        /\ ~\E g \in HalfEdges : HalfEdgeFrom(g) = HalfEdgeTo(h) /\ HalfEdgeTo(g) = v}

\* the vertices at the position of v
Wedges(v) ==
    {j \in Range0(vertex_count) : vertex_positions_data[j] = vertex_positions_data[v]}

\* meshopt_simplify has classified the vertices and has run no pass yet
Classified == algo = "simplify" /\ pc = "loop" /\ passes = 0

\* C12: classifyVertices makes a canonical vertex v with wedge[v] == v Manifold
\* when it has no open outgoing half-edge, Border with loop[v] the end of the
\* open half-edge when it has one, Locked when it has two or more; a canonical
\* vertex with three or more wedges is Locked; a vertex that is not canonical
\* has the kind of remap[v]; and loop[v] is ~0u for every vertex that is
\* neither Border nor Seam.
C12_Classification ==
    Classified =>
        \A v \in Range0(vertex_count) :
            /\ (cx.remap[v] = v /\ cx.wedge[v] = v)
                   => /\ Cardinality(OpenEdges(v)) = 0 => cx.vertex_kind[v] = Kind_Manifold
                      /\ Cardinality(OpenEdges(v)) = 1
                             => /\ cx.vertex_kind[v] = Kind_Border
                                /\ \E h \in OpenEdges(v) : loop[v] = HalfEdgeTo(h)
                      /\ Cardinality(OpenEdges(v)) >= 2 => cx.vertex_kind[v] = Kind_Locked
            /\ (cx.remap[v] = v /\ Cardinality(Wedges(v)) >= 3)
                   => cx.vertex_kind[v] = Kind_Locked
            /\ cx.remap[v] # v => cx.vertex_kind[v] = cx.vertex_kind[cx.remap[v]]
            /\ cx.vertex_kind[v] \notin {Kind_Border, Kind_Seam} => loop[v] = NoVertex

\* a classified mesh with a Border vertex, a vertex Locked by two open
\* half-edges and a canonical vertex with three wedges and one open half-edge
C12_Witness ==
    /\ Classified
    /\ \E v \in Range0(vertex_count) :
           cx.vertex_kind[v] = Kind_Border /\ loop[v] # NoVertex
    /\ \E v \in Range0(vertex_count) :
           cx.wedge[v] = v /\ Cardinality(OpenEdges(v)) >= 2
    /\ \E v \in Range0(vertex_count) :
           /\ cx.remap[v] = v
           /\ Cardinality(Wedges(v)) >= 3
           /\ Cardinality(OpenEdges(v)) = 1


\* the input has a half-edge from a to b
HasHalfEdge(a, b) == \E h \in HalfEdges : HalfEdgeFrom(h) = a /\ HalfEdgeTo(h) = b

\* the end of the open half-edge of a vertex that has exactly one
OpenEnd(v) == HalfEdgeTo(CHOOSE h \in OpenEdges(v) : TRUE)

\* some vertex at the position of a has a half-edge to b: what findWedgeEdge
\* looks for
WedgeEdge(a, b) == \E x \in Wedges(a) : HasHalfEdge(x, b)

\* v and w, the two vertices at one position, have one open half-edge each
\* and the two open half-edges connect across the seam
SeamPair(v, w) ==
    /\ Cardinality(OpenEdges(v)) = 1
    /\ Cardinality(OpenEdges(w)) = 1
    /\ WedgeEdge(OpenEnd(v), w)
    /\ WedgeEdge(OpenEnd(w), v)

\* the vertices at the two positions the patches of SeamMesh share
SharedVertices == {1, 2, 4, 5}

\* C13, as stated: in the seam mesh of two square patches the vertices at the
\* two shared positions are Seam.
C13_SharedAreSeam ==
    (Classified /\ input = SeamMesh.indices /\ vertex_count = SeamMesh.vertex_count)
        => \A v \in SharedVertices : cx.vertex_kind[v] = Kind_Seam

\* C13, as the code has it: in the seam mesh of two square patches the
\* vertices at the two shared positions are Locked: both wedges of each have
\* exactly one open half-edge, but one of the two is an edge of the border of
\* its patch and findWedgeEdge fails for it.  In every mesh a canonical vertex
\* with two wedges is Seam when the open half-edges of its wedges connect in
\* both directions, and Locked otherwise.
C13_SharedAreLocked ==
    /\ (Classified /\ input = SeamMesh.indices /\ vertex_count = SeamMesh.vertex_count)
           => \A v \in SharedVertices :
                  /\ cx.vertex_kind[v] = Kind_Locked
                  /\ Cardinality(OpenEdges(v)) = 1
                  /\ Cardinality(OpenEdges(cx.wedge[v])) = 1
                  /\ ~(WedgeEdge(OpenEnd(v), cx.wedge[v])
                           /\ WedgeEdge(OpenEnd(cx.wedge[v]), v))
    /\ Classified
           => \A v \in Range0(vertex_count) :
                  (cx.remap[v] = v /\ Cardinality(Wedges(v)) = 2)
                      => /\ Wedges(v) = {v, cx.wedge[v]}
                         /\ cx.vertex_kind[v] = IF SeamPair(v, cx.wedge[v])
                                                 THEN Kind_Seam ELSE Kind_Locked

\* the seam mesh of two square patches has been classified
C13_Witness ==
    /\ Classified
    /\ input = SeamMesh.indices
    /\ vertex_count = SeamMesh.vertex_count
    /\ \A v \in SharedVertices : Cardinality(Wedges(v)) = 2
    /\ \E v \in SharedVertices : WedgeEdge(OpenEnd(v), cx.wedge[v])


\* a pass of meshopt_simplify has run (the variable pass describes the last one)
PassDone == algo = "simplify" /\ passes >= 1

\* the applied collapses of the last pass that move, or move a vertex onto, the
\* position of the canonical vertex r
Touching(r) ==
    {k \in 1..Len(pass.applied) :
        cx.remap[pass.applied[k].v0] = r \/ cx.remap[pass.applied[k].v1] = r}

\* C14: in one pass every position-canonical vertex is the source or the
\* target of at most one applied collapse, collapse_remap[collapse_remap[v]] ==
\* collapse_remap[v] for every vertex v at the end of the pass, and no
\* assertion of performEdgeCollapses or remapIndexBuffer fails.
C14_OneCollapsePerVertex ==
    PassDone =>
        /\ \A r \in Range0(vertex_count) : Cardinality(Touching(r)) <= 1
        /\ \A v \in Range0(vertex_count) :
               pass.collapse_remap[pass.collapse_remap[v]] = pass.collapse_remap[v]
        /\ asserts

\* a pass applied two collapses and passed over a candidate within the error
\* limit, one of whose ends an applied collapse had touched
C14_Witness ==
    /\ PassDone
    /\ Len(pass.applied) >= 2
    /\ \E c \in Ranked \ Applied :
           /\ c.error <= pass.error_limit
           /\ \E d \in Applied :
                  {cx.remap[c.v0], cx.remap[c.v1]} \cap {cx.remap[d.v0], cx.remap[d.v1]} # {}


\* the vertices the working index buffer of meshopt_simplify names
Referenced == {destination[k] : k \in Range0(result_count)}

\* the working index buffer has a triangle with the half-edge from a to b
WorkingEdge(a, b) ==
    \E t \in Range0(result_count \div 3), e \in Range0(3) :
        destination[(3 * t) + e] = a /\ destination[(3 * t) + ((e + 1) % 3)] = b

\* C15: after remapEdgeLoops at the end of a pass, for every Border or Seam
\* vertex v the working index buffer still names, loop[v] is a vertex the pass
\* has not moved (collapse_remap[loop[v]] == loop[v]) and the working index
\* buffer has a triangle with the half-edge from v to loop[v].
C15_LoopsFollowEdges ==
    (PassDone /\ pc \in {"loop", "return"})
        => \A v \in Referenced :
               cx.vertex_kind[v] \in {Kind_Border, Kind_Seam}
                   => /\ loop[v] # NoVertex
                      /\ pass.collapse_remap[loop[v]] = loop[v]
                      /\ WorkingEdge(v, loop[v])


\* C16: a collapse performEdgeCollapses applies from a Seam vertex i0 goes to a
\* Seam vertex i1, with wedge[i0] != i0, wedge[i1] != i1, wedge[wedge[i0]] == i0
\* and wedge[wedge[i1]] == i1, and moves wedge[i0] to wedge[i1] as it moves i0
\* to i1; a collapse from a vertex that is not Seam has wedge[i0] == i0.
\* After every pass two vertices at one position are mapped by collapse_remap
\* to two vertices at one position, and wedge is as buildPositionRemap left it.
C16_SeamsMoveInPairs ==
    PassDone =>
        /\ \A c \in Applied :
               IF cx.vertex_kind[c.v0] = Kind_Seam
               THEN /\ cx.vertex_kind[c.v1] = Kind_Seam
                    /\ cx.wedge[c.v0] # c.v0
                    /\ cx.wedge[c.v1] # c.v1
                    /\ cx.wedge[cx.wedge[c.v0]] = c.v0
                    /\ cx.wedge[cx.wedge[c.v1]] = c.v1
                    /\ pass.collapse_remap[c.v0] = c.v1
                    /\ pass.collapse_remap[cx.wedge[c.v0]] = cx.wedge[c.v1]
               ELSE cx.wedge[c.v0] = c.v0
        /\ \A u, v \in Range0(vertex_count) :
               cx.remap[u] = cx.remap[v]
                   => cx.remap[pass.collapse_remap[u]] = cx.remap[pass.collapse_remap[v]]
        /\ cx.wedge = buildPositionRemap(vertex_positions_data, vertex_count).wedge
        /\ asserts

\* a pass applied a collapse from a Seam vertex
C16_Witness ==
    /\ PassDone
    /\ \E c \in Applied :
           /\ cx.vertex_kind[c.v0] = Kind_Seam
           /\ pass.collapse_remap[cx.wedge[c.v0]] # cx.wedge[c.v0]
    /\ result_count < index_count


\* the error of the candidate at position p (from 1) of the sorted order
SortedError(p) == pass.edge_collapses[pass.collapse_order[p] + 1].error

\* the sort key of the candidate at position p of the sorted order
SortedKey(p) == SortKey(SortedError(p), 2 * ErrDen(cx.extent))

\* a pass has ranked and sorted its candidates
Sorted == PassDone /\ Len(pass.edge_collapses) > 0

\* sort_order names every candidate once
IsPermutation ==
    /\ Len(pass.collapse_order) = Len(pass.edge_collapses)
    /\ {pass.collapse_order[p] : p \in 1..Len(pass.collapse_order)}
           = Range0(Len(pass.edge_collapses))

\* C17, as the specification states it: sortEdgeCollapses writes a permutation
\* of the candidates in ascending order of error.
C17_AscendingError ==
    Sorted =>
        /\ IsPermutation
        /\ \A p, q \in 1..Len(pass.collapse_order) :
               p < q => SortedError(p) <= SortedError(q)


\* C17: sortEdgeCollapses writes a permutation of the candidates in ascending
\* order of the 11-bit key of the error (its exponent and three leading mantissa
\* bits), candidates of one key staying in input order; so a candidate comes
\* before one of smaller error only when both errors have the same key.
C17_AscendingKey ==
    Sorted =>
        /\ IsPermutation
        /\ \A p, q \in 1..Len(pass.collapse_order) :
               p < q =>
                   /\ SortedKey(p) <= SortedKey(q)
                   /\ SortedKey(p) = SortedKey(q)
                          => pass.collapse_order[p] < pass.collapse_order[q]
                   /\ SortedError(p) > SortedError(q) => SortedKey(p) = SortedKey(q)

\* a sorted pass that visits a candidate before one of smaller error and equal
\* key, next to candidates of other keys
C17_Witness ==
    /\ Sorted
    /\ \E p, q \in 1..Len(pass.collapse_order) :
           p < q /\ SortedError(p) > SortedError(q) /\ SortedKey(p) = SortedKey(q)
    /\ \E p, q \in 1..Len(pass.collapse_order) : SortedKey(p) < SortedKey(q)


\* the vertices whose remap entry is written
Remapped == Range0(position_remap.i)

\* the vertices at the position of vertex j
SamePosition(j) ==
    {k \in Range0(position_remap.vertex_count) :
        position_remap.positions[k] = position_remap.positions[j]}

\* C18: whatever buckets the positions hash to, hashLookup2 never reaches the
\* assertion "Hash table is full", and remap[j] is the lowest vertex at the
\* position of j; so remap[j] <= j and remap[remap[j]] = remap[j].
C18_LowestEqualPosition ==
    algo = "remap" =>
        /\ asserts
        /\ \A j \in Remapped :
               /\ position_remap.remap[j] = Min(SamePosition(j))
               /\ position_remap.remap[j] <= j
               /\ position_remap.remap[position_remap.remap[j]] = position_remap.remap[j]

\* a table as large as the vertex count, filled to the last bucket by
\* positions that differ and all hash to one bucket
C18_Witness ==
    /\ algo = "remap"
    /\ pc = "done"
    /\ position_remap.vertex_count = MaxRemapVertices
    /\ hashBuckets2(position_remap.vertex_count) = position_remap.vertex_count
    /\ \A j \in Range0(position_remap.vertex_count) :
           /\ position_remap.positions[j] = j
           /\ position_remap.hash[j] = position_remap.hash[0]
    /\ \A b \in Range0(position_remap.vertex_count) : position_remap.table[b] # NoVertex


\* the vertex reached from vertex i by following wedge k times
RECURSIVE WedgeSteps(_, _)
WedgeSteps(i, k) == IF k = 0 THEN i ELSE position_remap.wedge[WedgeSteps(i, k - 1)]

\* the vertices with the remap entry of vertex i
SameRemap(i) ==
    {j \in Range0(position_remap.vertex_count) :
        position_remap.remap[j] = position_remap.remap[i]}

\* buildPositionRemap has returned
RemapBuilt == algo = "remap" /\ pc = "done" /\ asserts

\* C19: following wedge from vertex i visits exactly the vertices with the
\* remap entry of i, each once, and is back at i after as many steps as there
\* are such vertices and not before; wedge[i] = i for a vertex alone at its
\* position and wedge[wedge[i]] = i for one of two.
C19_WedgeRing ==
    RemapBuilt =>
        \A i \in Range0(position_remap.vertex_count) :
            \E n \in {Cardinality(SameRemap(i))} :
                /\ {WedgeSteps(i, k) : k \in 0..(n - 1)} = SameRemap(i)
                /\ WedgeSteps(i, n) = i
                /\ \A k \in 1..(n - 1) : WedgeSteps(i, k) # i
                /\ n = 1 => position_remap.wedge[i] = i
                /\ n = 2 => position_remap.wedge[position_remap.wedge[i]] = i

\* a built table with three vertices at one position and one vertex alone
C19_Witness ==
    /\ RemapBuilt
    /\ \E i, j \in Range0(position_remap.vertex_count) :
           /\ Cardinality(SameRemap(i)) = 3
           /\ Cardinality(SameRemap(j)) = 1
           /\ position_remap.wedge[i] # i


\* meshopt_simplifySloppy has computed the vertex ids
SloppyGrid == algo = "sloppy" /\ pc = "done" /\ DOMAIN grid.vertex_ids # {}

\* xi, yi and zi of vertex i
GridCoordinates(i) ==
    Only({<<gridCoordinate(rp.result[i][1], rp.extent),
            gridCoordinate(rp.result[i][2], rp.extent),
            gridCoordinate(rp.result[i][3], rp.extent)>>
          : rp \in {rescalePositions(vertex_positions_data, vertex_count)}})

\* C20: every grid coordinate of meshopt_simplifySloppy is in 0 .. 1023, the
\* packed id is below 2^30, and two vertices have the same id only if their
\* three grid coordinates are equal.
C20_GridCoordinates ==
    SloppyGrid =>
        /\ \A i \in Range0(vertex_count) :
               /\ \A a \in 1..3 : GridCoordinates(i)[a] \in 0..1023
               /\ grid.vertex_ids[i] < Pow2(30)
        /\ \A i, j \in Range0(vertex_count) :
               grid.vertex_ids[i] = grid.vertex_ids[j]
                   => GridCoordinates(i) = GridCoordinates(j)


\* the mask that keeps the w leading bits of each of the three 10-bit fields
WidthMask(w) == (1024 - Pow2(10 - w)) * (1048576 + 1024 + 1)

\* the approximate number of non-empty cells at w bits per axis
WidthCount(w) ==
    approxCellCount(grid.vertex_ids, vertex_count, WidthMask(w),
                    hashBuckets2(targetCellCount(target_index_count) * 4))

\* the cells of the vertices are the classes of equal masked ids
CellsUseMask ==
    \A i, j \in Range0(vertex_count) :
        grid.vertex_cells[i] = grid.vertex_cells[j]
            <=> BitAnd(grid.vertex_ids[i], grid.mask, 31)
                    = BitAnd(grid.vertex_ids[j], grid.mask, 31)

\* C21, as the specification states it: the search goes from 10 bits per axis
\* down to 1 bit and stops at the first width whose count reaches
\* target_index_count / 6; the cells use the mask of that width.
C21_MaskSearchDown ==
    SloppyGrid =>
        /\ \E w \in 1..10 :
               /\ grid.mask = WidthMask(w)
               /\ \A u \in (w + 1)..10 : WidthCount(u) < targetCellCount(target_index_count)
               /\ WidthCount(w) >= targetCellCount(target_index_count) \/ w = 1
        /\ CellsUseMask

\* C21: the search goes from 1 bit per axis up to 10 bits and stops at the
\* first width whose approximate count reaches target_index_count / 6, or at
\* 10 bits when no width does; the cells use the mask of that width.
C21_MaskSearchUp ==
    SloppyGrid =>
        /\ \E w \in 1..10 :
               /\ grid.mask = WidthMask(w)
               /\ grid.pass = w - 1
               /\ grid.approx_count = WidthCount(w)
               /\ \A u \in 1..(w - 1) : WidthCount(u) < targetCellCount(target_index_count)
               /\ WidthCount(w) >= targetCellCount(target_index_count) \/ w = 10
        /\ CellsUseMask

\* the search stopped at 2 bits per axis: 1 bit gave too few cells, and more
\* bits would have reached the target as well
C21_Witness ==
    /\ SloppyGrid
    /\ grid.mask = WidthMask(2)
    /\ WidthCount(1) < targetCellCount(target_index_count)
    /\ WidthCount(2) >= targetCellCount(target_index_count)
    /\ WidthCount(10) >= targetCellCount(target_index_count)
    /\ \E i, j \in Range0(vertex_count) :
           i # j /\ grid.vertex_cells[i] = grid.vertex_cells[j]


\* the call was given triangles whose vertices are all at one position
ZeroExtent ==
    /\ index_count > 0
    /\ \A i, j \in Range0(vertex_count) :
           vertex_positions_data[i] = vertex_positions_data[j]

\* C22, as the specification states it: for an empty mesh, and for a mesh of
\* zero extent with target_index_count < index_count, both meshopt_simplify
\* and meshopt_simplifySloppy return 0 indices.
C22_ZeroOutput ==
    (pc = "done" /\ algo \in {"simplify", "sloppy"}) =>
        /\ index_count = 0 => ret = 0
        /\ (ZeroExtent /\ target_index_count < index_count) => ret = 0

\* C22: for an empty mesh both calls return 0 indices; for a mesh of zero
\* extent with target_index_count < index_count meshopt_simplifySloppy returns
\* 0 indices, and meshopt_simplify picks no candidate in its first pass and
\* returns all index_count indices, the index buffer as it was given.
C22_ZeroExtentKept ==
    (pc = "done" /\ algo \in {"simplify", "sloppy"}) =>
        /\ index_count = 0 => ret = 0
        /\ (ZeroExtent /\ target_index_count < index_count) =>
               IF algo = "sloppy" THEN ret = 0
               ELSE /\ ret = index_count
                    /\ passes = 1
                    /\ pass.edge_collapses = <<>>
                    /\ \A k \in Range0(ret) : destination[k] = input[k]

\* meshopt_simplify has returned from a call on triangles of zero extent with
\* a target below the index count
C22_Witness ==
    /\ pc = "done"
    /\ algo = "simplify"
    /\ ZeroExtent
    /\ target_index_count < index_count
    /\ ret = index_count

=============================================================================
